---- MODULE Spec2Model ----
(***************************************************************************)
(* Model of the Axiom trader crawler.                                      *)
(*                                                                         *)
(* Part 1: the task execution engine of selenium_manager.py (Task and      *)
(* SeleniumManager): a lifecycle thread calling start / stop, submitter    *)
(* threads calling add_task / execute_task, and the worker threads spawned *)
(* by start().                                                             *)
(* Part 2: the retry helper of solana_rpc_client.py (_retry_request and    *)
(* _switch_rpc_url).                                                       *)
(***************************************************************************)
EXTENDS Integers, Sequences, FiniteSets, TLC

(* ------------------------------ bounds --------------------------------- *)
\* number of Task objects that may be enqueued in one behaviour
MaxTasks == 3
\* the same, in the behaviours where stop() is called too
MaxTasksWithStop == 2
\* number of worker threads start() may spawn in one behaviour
MaxWorkers == 2
\* number of browser sessions uc.Chrome() may create in one behaviour
MaxSessions == 2
\* number of threads calling add_task / execute_task
NumSubmitters == 2

\* Python's None: the poison pill in the queue, the absent driver / thread
None == 0

Tasks == 1..MaxTasks
Workers == 1..MaxWorkers
Sessions == 1..MaxSessions
Submitters == 1..NumSubmitters

\* the order of the list `approaches` in _setup_driver
approaches == <<"manual", "auto", "headless">>

VARIABLES
    \* ---- SeleniumManager fields
    running,        \* self.running
    driver,         \* self.driver: None or a session
    task_queue,     \* self.task_queue: sequence of tasks and None pills
    worker_thread,  \* self.worker_thread: None or the last spawned worker
    setup_lock,     \* self.setup_lock is held
    \* ---- worker threads (_worker_thread_func)
    wpc,            \* position of each worker thread
    wtask,          \* local `task` of each worker
    wdriver,        \* the driver argument of the running task.execute(driver)
    wapproach,      \* index in `approaches` of the strategy being tried
    \* ---- Task objects, named by their position in the enqueue order
    nput,           \* number of tasks put on the queue so far
    func,           \* Task.func: "ok" returns a value, "raises" raises
    result,         \* Task.result
    exception,      \* Task.exception
    completed,      \* Task.completed (the Event)
    \* ---- browser sessions
    nsess,          \* number of sessions created so far
    quit,           \* per session: driver.quit() was called on it
    \* ---- the thread calling start() and stop(). Both run entirely under
    \* setup_lock, so calls from several threads happen one after the
    \* other, as the calls of this one thread do.
    lpc,            \* position inside stop(), or "idle"
    lquit,          \* inside stop(): how the driver.quit() of this call ended
    \* ---- threads calling add_task / execute_task
    cpc,            \* position of each submitter
    ctask,          \* the Task created by the call in progress
    \* ---- history
    lastRet,        \* the outcome of the call that returned or raised in the
                    \* last step (NoRet when no call ended in it)
    execLog,        \* tasks in the order their function was called
    \* ---- SolanaRPCClient (part 2)
    rpc_urls,         \* self.rpc_urls, the endpoint pool
    current_rpc_url,  \* self.current_rpc_url
    client,           \* self.client: the endpoint its Client talks to
    max_retries,      \* parameter of the _retry_request in progress
    attempt,          \* its loop variable
    rpc_pc,           \* its position
    bound,            \* the endpoint of the Client request_func is bound to
    callLog,          \* the calls of request_func it has made
    switches,         \* the endpoint switches it has made
    response,         \* what it returned
    \* ---- the main thread inside one of the discovery / history functions
    \* ---- of solana_rpc_client.py, solana_trading_service.py and
    \* ---- solscan_scraper.py (part 3)
    pc,               \* its position
    caller,           \* who called get_program_accounts
    program_id,       \* parameter program_id
    max_addresses,    \* parameter max_addresses
    unique_addresses, \* local set unique_addresses
    before,           \* pagination cursor (0 for None)
    value,            \* response.value of the signature listing
    sig_i,            \* position of the for loop in it
    req,              \* the RPC request in progress
    returned,         \* what the function returned
    tr_i,             \* get_axiom_traders: position in AXIOM_PROGRAM_IDS
    all_addresses,    \* get_axiom_traders: local set all_addresses
    transactions,     \* get_address_transactions: local list transactions
    page_count,       \* extract_table_data_task: local page_count
    rows_left,        \* rows of the current table still to be processed
    \* ---- the data the RPC node serves
    hist,             \* number of signatures in the history of each account
    fresh,            \* how many of them are newer than the cutoff
    \* ---- history
    requests,         \* cursors of the signature pages requested so far
    examined,         \* signatures the for loop of
                      \* get_address_transactions has gone through
    signers,          \* the Axiom program IDs that were the first account
                      \* key of a transaction get_program_accounts fetched
    \* ---- _extract_balance_changes
    address_idx,       \* local address_idx
    token_bal_changes, \* local dict token_bal_changes, in insertion order
    n_pre,             \* entries of pre_token_bals gone through
    n_post,            \* entries of post_token_bals gone through
    emit_i,            \* position of the loop over token_bal_changes
    changes,           \* local list changes
    pre_sol_bals,      \* local pre_sol_bals
    post_sol_bals,     \* local post_sol_bals
    \* ---- history of _extract_balance_changes
    pre_items, \* the (mint, amount) pairs of the entries of pre_token_bals
                   \* that belong to the address
    post_items,\* the same for post_token_bals
    \* ---- the record functions of solana_rpc_client.py
    transaction,\* the transaction handed to _extract_instructions /
                   \* _parse_transaction (the parts of it they read)
    \* ---- the scraping tasks of solscan_scraper.py
    should_continue, \* extract_address_transactions_task: local should_continue
    clicks, \* history: next-page clicks of the scraping loop
    rows_seen, \* history: the rows the scraping loop has gone through
    cutoff_seen,\* history: a row older than the cutoff was met
    signatures, \* extract_balance_changes_task: parameter signatures
    found_signatures, \* extract_balance_changes_task: local set found_signatures
    balance_changes,\* extract_balance_changes_task: local dict balance_changes, as
                   \* the token names of the records under each signature
                   \* (none: no key)
    failure,\* history: what made the top-level operation fail ("none"
                   \* when nothing did)
    \* ---- parse_time_text of solscan_scraper.py
    time_text, \* parse_time_text: parameter time_text, as its characters
    now,\* parse_time_text: local now, in seconds
    row,\* extract_table_data_task: the row of `for i, row in enumerate(rows)`
    \* ---- synthetic activity of selenium_manager.py
    duration_seconds, \* simulate_random_user_activity: parameter duration_seconds
    elapsed, \* simulate_random_user_activity: time.time() - start_time, in seconds
    activity_type, \* simulate_random_user_activity: local activity_type (0: none yet)
    failures, \* history: the exceptions raised inside the synthetic-activity functions
    errors_logged,\* history: the calls of logger.error of the synthetic-activity functions
    \* ---- next-page discovery of solscan_scraper.py
    controls, \* history: what each next-button selector resolves to on the page
    next_button,\* pagination: local next_button, as what it resolves to
    \* ---- construction of the SeleniumManager singleton
    instance, \* SeleniumManager._instance: None or the number of the object
    created, \* history: the number of SeleniumManager objects created
    initialized, \* the attribute _initialized of the instance ("unset" before it is assigned)
    new_lock, \* SeleniumManager._lock is held
    kpc, \* position of each thread constructing SeleniumManager()
    nconstructions, \* history: the number of constructions started
    inits \* history: the number of times __init__ has assigned the fields

evars == <<running, driver, task_queue, worker_thread, setup_lock,
           wpc, wtask, wdriver, wapproach,
           nput, func, result, exception, completed,
           nsess, quit, lpc, lquit, cpc, ctask,
           lastRet, execLog>>

rvars == <<rpc_urls, current_rpc_url, client, max_retries, attempt, rpc_pc,
           bound, callLog, switches, response>>

svars == <<pc, caller, program_id, max_addresses, unique_addresses, before,
           value, sig_i, req, returned, tr_i, all_addresses, transactions,
           page_count, rows_left, hist, fresh, requests, examined,
           signers, address_idx, token_bal_changes, n_pre, n_post, emit_i,
           changes, pre_sol_bals, post_sol_bals,
           pre_items, post_items,
           transaction,
           should_continue, clicks, rows_seen, cutoff_seen,
           signatures, found_signatures, balance_changes,
           failure,
           time_text, now,
           row,
           duration_seconds, elapsed, activity_type, failures, errors_logged,
           controls, next_button,
           instance, created, initialized, new_lock, kpc, nconstructions, inits>>

dvars == <<svars>>

vars == <<evars, rvars, dvars>>

\* the thread calling start() and stop()
Lifecycle == 0

\* what a call gave back to its caller: a return value or a raised error
\* who: the calling thread; kind: what came back ("result", "Task", the name
\* of the raised error, the outcome of start / stop); task: the Task the
\* call was about; val: the value returned
Ret(c, k, t, v) == [who |-> c, kind |-> k, task |-> t, val |-> v]
NoRet == Ret(Lifecycle, "none", None, None)

(* ------------------------- SeleniumManager ----------------------------- *)

\* SeleniumManager.__init__ and the Task objects not yet created
EngineInit ==
    /\ running = FALSE
    /\ driver = None
    /\ task_queue = <<>>
    /\ worker_thread = None
    /\ setup_lock = FALSE
    /\ wpc = [w \in Workers |-> "unborn"]
    /\ wtask = [w \in Workers |-> None]
    /\ wdriver = [w \in Workers |-> None]
    /\ wapproach = [w \in Workers |-> 0]
    /\ nput = 0
    /\ func = [t \in Tasks |-> "none"]
    /\ result = [t \in Tasks |-> None]
    /\ exception = [t \in Tasks |-> "none"]
    /\ completed = [t \in Tasks |-> FALSE]
    /\ nsess = 0
    /\ quit = [s \in Sessions |-> FALSE]
    /\ lpc = "idle"
    /\ lquit = "none"
    /\ cpc = [c \in Submitters |-> "idle"]
    /\ ctask = [c \in Submitters |-> None]
    /\ lastRet = NoRet
    /\ execLog = <<>>

\* worker threads that start() has created
Spawned == {w \in Workers : wpc[w] # "unborn"}
\* worker threads for which is_alive() holds
Alive == {w \in Workers : wpc[w] \notin {"unborn", "dead"}}

\* a Task.execute without its except / finally clauses: an exception of
\* the function escapes, nothing is recorded and completed is not set
TaskExecuteEscapes(t) ==
    /\ result' = [result EXCEPT ![t] = IF func[t] = "ok" THEN t ELSE @]
    /\ completed' = [completed EXCEPT ![t] = (func[t] = "ok")]
    /\ UNCHANGED exception

\* Task.execute: run the function, record result or exception, set completed
TaskExecute(t) ==
    /\ result' = [result EXCEPT ![t] = IF func[t] = "ok" THEN t ELSE @]
    /\ exception' = [exception EXCEPT
                       ![t] = IF func[t] = "ok" THEN @ ELSE "FuncError"]
    /\ completed' = [completed EXCEPT ![t] = TRUE]

\* a get that takes the newest item instead of the oldest
QueueGetNewest ==
    <<task_queue[Len(task_queue)],
      SubSeq(task_queue, 1, Len(task_queue) - 1)>>

\* queue.Queue.get on a non-empty queue: the item returned and the queue
\* left behind (first in, first out)
QueueGet == <<Head(task_queue), Tail(task_queue)>>

\* `while self.running:` -- the loop test; leaving the loop ends the thread
WorkerLoop(w) ==
    /\ wpc[w] = "loop"
    /\ wpc' = [wpc EXCEPT ![w] = IF running THEN "get" ELSE "dead"]
    /\ lastRet' = NoRet
    /\ UNCHANGED <<running, driver, task_queue, worker_thread, setup_lock,
                   wtask, wdriver, wapproach, nput, func, result, exception,
                   completed, nsess, quit, lpc, lquit, cpc, ctask, execLog,
                   rvars, dvars>>

\* task_queue.get(timeout=1) on an empty queue: queue.Empty, `continue`
WorkerGetEmpty(w) ==
    /\ wpc[w] = "get"
    /\ task_queue = <<>>
    /\ wpc' = [wpc EXCEPT ![w] = "loop"]
    /\ lastRet' = NoRet
    /\ UNCHANGED <<running, driver, task_queue, worker_thread, setup_lock,
                   wtask, wdriver, wapproach, nput, func, result, exception,
                   completed, nsess, quit, lpc, lquit, cpc, ctask, execLog,
                   rvars, dvars>>

\* task_queue.get returns the poison pill: `break`, the thread ends
WorkerGetPill(w) ==
    /\ wpc[w] = "get"
    /\ task_queue # <<>>
    /\ QueueGet[1] = None
    /\ task_queue' = QueueGet[2]
    /\ wpc' = [wpc EXCEPT ![w] = "dead"]
    /\ lastRet' = NoRet
    /\ UNCHANGED <<running, driver, worker_thread, setup_lock, wtask,
                   wdriver, wapproach, nput, func, result, exception,
                   completed, nsess, quit, lpc, lquit, cpc, ctask, execLog,
                   rvars, dvars>>

\* task_queue.get returns a Task; `if not self.driver` chooses between
\* _setup_driver and task.execute(self.driver)
WorkerGetTask(w) ==
    /\ wpc[w] = "get"
    /\ task_queue # <<>>
    /\ QueueGet[1] # None
    /\ task_queue' = QueueGet[2]
    /\ wtask' = [wtask EXCEPT ![w] = QueueGet[1]]
    /\ IF driver = None
          THEN /\ wpc' = [wpc EXCEPT ![w] = "setup"]
               /\ wapproach' = [wapproach EXCEPT ![w] = 1]
               /\ UNCHANGED <<wdriver, execLog>>
          ELSE /\ wpc' = [wpc EXCEPT ![w] = "execute"]
               /\ wdriver' = [wdriver EXCEPT ![w] = driver]
               /\ execLog' = Append(execLog, QueueGet[1])
               /\ UNCHANGED wapproach
    /\ lastRet' = NoRet
    /\ UNCHANGED <<running, driver, worker_thread, setup_lock, nput, func,
                   result, exception, completed, nsess, quit, lpc, lquit,
                   cpc, ctask, rvars, dvars>>

\* what follows a strategy that raised: the next strategy, or, after the
\* last one, _setup_driver returns False and the worker fails the task
\* (task.exception = Exception("Failed to setup driver"); completed.set();
\* continue)
ApproachFailed(w) ==
    IF wapproach[w] < Len(approaches)
       THEN /\ wapproach' = [wapproach EXCEPT ![w] = @ + 1]
            /\ UNCHANGED <<wpc, wtask, exception, completed>>
       ELSE /\ wapproach' = [wapproach EXCEPT ![w] = 0]
            /\ exception' = [exception EXCEPT ![wtask[w]] = "SetupFailed"]
            /\ completed' = [completed EXCEPT ![wtask[w]] = TRUE]
            /\ wpc' = [wpc EXCEPT ![w] = "loop"]
            /\ wtask' = [wtask EXCEPT ![w] = None]

\* one strategy of _setup_driver whose uc.Chrome(...) raises: self.driver
\* is not assigned
WorkerSetupCtorRaises(w) ==
    /\ wpc[w] = "setup"
    /\ ApproachFailed(w)
    /\ lastRet' = NoRet
    /\ UNCHANGED <<running, driver, task_queue, worker_thread, setup_lock,
                   wdriver, nput, func, result, nsess, quit, lpc, lquit, cpc,
                   ctask, execLog, rvars, dvars>>

\* one strategy whose uc.Chrome(...) succeeds and is assigned to
\* self.driver, but whose self.driver.set_window_size(480, 480) raises
WorkerSetupWindowRaises(w) ==
    /\ wpc[w] = "setup"
    /\ nsess < MaxSessions
    /\ nsess' = nsess + 1
    /\ driver' = nsess + 1
    /\ ApproachFailed(w)
    /\ lastRet' = NoRet
    /\ UNCHANGED <<running, task_queue, worker_thread, setup_lock, wdriver,
                   nput, func, result, quit, lpc, lquit, cpc, ctask, execLog,
                   rvars, dvars>>

\* one strategy that returns True: _setup_driver returns True and the
\* worker goes on to task.execute(self.driver)
WorkerSetupSucceeds(w) ==
    /\ wpc[w] = "setup"
    /\ nsess < MaxSessions
    /\ nsess' = nsess + 1
    /\ driver' = nsess + 1
    /\ wapproach' = [wapproach EXCEPT ![w] = 0]
    /\ wpc' = [wpc EXCEPT ![w] = "execute"]
    /\ wdriver' = [wdriver EXCEPT ![w] = nsess + 1]
    /\ execLog' = Append(execLog, wtask[w])
    /\ lastRet' = NoRet
    /\ UNCHANGED <<running, task_queue, worker_thread, setup_lock, wtask,
                   nput, func, result, exception, completed, quit, lpc,
                   lquit, cpc, ctask, rvars, dvars>>

\* the task's function returns or raises inside task.execute, then
\* task_queue.task_done() and the next loop iteration
WorkerFinish(w) ==
    /\ wpc[w] = "execute"
    /\ TaskExecute(wtask[w])
    /\ wpc' = [wpc EXCEPT ![w] = "loop"]
    /\ wtask' = [wtask EXCEPT ![w] = None]
    /\ wdriver' = [wdriver EXCEPT ![w] = None]
    /\ lastRet' = NoRet
    /\ UNCHANGED <<running, driver, task_queue, worker_thread, setup_lock,
                   wapproach, nput, func, nsess, quit, lpc, lquit, cpc,
                   ctask, execLog, rvars, dvars>>

\* a start() without its `if self.running: return`: a second worker is
\* created on a running engine
StartRunningSpawns ==
    /\ lpc = "idle"
    /\ ~setup_lock
    /\ running
    /\ Spawned # Workers
    /\ LET w == CHOOSE x \in Workers \ Spawned :
                    \A y \in Workers \ Spawned : x <= y IN
       /\ worker_thread' = w
       /\ wpc' = [wpc EXCEPT ![w] = "loop"]
    /\ lastRet' = Ret(Lifecycle, "start: already running", None, None)
    /\ UNCHANGED <<running, driver, task_queue, setup_lock, wtask, wdriver,
                   wapproach, nput, func, result, exception, completed,
                   nsess, quit, lpc, lquit, cpc, ctask, execLog, rvars, dvars>>

\* SeleniumManager.start on a running engine: warn and return
StartRunning ==
    /\ lpc = "idle"
    /\ ~setup_lock
    /\ running
    /\ lastRet' = Ret(Lifecycle, "start: already running", None, None)
    /\ UNCHANGED <<running, driver, task_queue, worker_thread, setup_lock,
                   wpc, wtask, wdriver, wapproach, nput, func, result,
                   exception, completed, nsess, quit, lpc, lquit, cpc, ctask,
                   execLog, rvars, dvars>>

\* SeleniumManager.start on a stopped engine: set running, create and
\* start the worker thread
StartStopped ==
    /\ lpc = "idle"
    /\ ~setup_lock
    /\ ~running
    /\ Spawned # Workers
    /\ LET w == CHOOSE x \in Workers \ Spawned :
                    \A y \in Workers \ Spawned : x <= y IN
       /\ running' = TRUE
       /\ worker_thread' = w
       /\ wpc' = [wpc EXCEPT ![w] = "loop"]
    /\ lastRet' = Ret(Lifecycle, "start: started", None, None)
    /\ UNCHANGED <<driver, task_queue, setup_lock, wtask, wdriver, wapproach,
                   nput, func, result, exception, completed, nsess, quit,
                   lpc, lquit, cpc, ctask, execLog, rvars, dvars>>

\* SeleniumManager.stop on a stopped engine: warn and return
StopStopped ==
    /\ lpc = "idle"
    /\ ~setup_lock
    /\ ~running
    /\ lastRet' = Ret(Lifecycle, "stop: not running", None, None)
    /\ UNCHANGED <<running, driver, task_queue, worker_thread, setup_lock,
                   wpc, wtask, wdriver, wapproach, nput, func, result,
                   exception, completed, nsess, quit, lpc, lquit, cpc, ctask,
                   execLog, rvars, dvars>>

\* SeleniumManager.stop on a running engine, first part: take setup_lock,
\* clear running and put the poison pill
StopBegin ==
    /\ lpc = "idle"
    /\ ~setup_lock
    /\ running
    /\ setup_lock' = TRUE
    /\ running' = FALSE
    /\ task_queue' = Append(task_queue, None)
    /\ lpc' = "stop_join"
    /\ lquit' = "none"
    /\ lastRet' = NoRet
    /\ UNCHANGED <<driver, worker_thread, wpc, wtask, wdriver, wapproach,
                   nput, func, result, exception, completed, nsess, quit,
                   cpc, ctask, execLog, rvars, dvars>>

\* stop: `if self.worker_thread and self.worker_thread.is_alive():
\* self.worker_thread.join(timeout=5)` when the thread has ended
StopJoined ==
    /\ lpc = "stop_join"
    /\ worker_thread = None \/ wpc[worker_thread] = "dead"
    /\ lpc' = "stop_close"
    /\ lastRet' = NoRet
    /\ UNCHANGED <<running, driver, task_queue, worker_thread, setup_lock,
                   wpc, wtask, wdriver, wapproach, nput, func, result,
                   exception, completed, nsess, quit, lquit, cpc, ctask,
                   execLog, rvars, dvars>>

\* stop: the join gives up after 5 seconds. An idle worker polls the queue
\* every second (get(timeout=1)) and so ends within the grace period; the
\* 5 seconds can pass only while the worker is inside a session creation
\* or a task's function.
StopJoinTimeout ==
    /\ lpc = "stop_join"
    /\ worker_thread # None
    /\ wpc[worker_thread] \in {"setup", "execute"}
    /\ lpc' = "stop_close"
    /\ lastRet' = NoRet
    /\ UNCHANGED <<running, driver, task_queue, worker_thread, setup_lock,
                   wpc, wtask, wdriver, wapproach, nput, func, result,
                   exception, completed, nsess, quit, lquit, cpc, ctask,
                   execLog, rvars, dvars>>

\* stop: `if self.driver:` is false, nothing to close
StopNoDriver ==
    /\ lpc = "stop_close"
    /\ driver = None
    /\ lpc' = "stop_ret"
    /\ lastRet' = NoRet
    /\ UNCHANGED <<running, driver, task_queue, worker_thread, setup_lock,
                   wpc, wtask, wdriver, wapproach, nput, func, result,
                   exception, completed, nsess, quit, lquit, cpc, ctask,
                   execLog, rvars, dvars>>

\* stop: `if self.driver:` try driver.quit() (an exception is caught and
\* logged), finally self.driver = None
StopQuit(how) ==
    /\ lpc = "stop_close"
    /\ driver # None
    /\ quit' = [quit EXCEPT ![driver] = TRUE]
    /\ lquit' = how
    /\ driver' = None
    /\ lpc' = "stop_ret"
    /\ lastRet' = NoRet
    /\ UNCHANGED <<running, task_queue, worker_thread, setup_lock, wpc,
                   wtask, wdriver, wapproach, nput, func, result, exception,
                   completed, nsess, cpc, ctask, execLog, rvars, dvars>>

\* how a stop() that ran to its end reports to its caller: it returns
\* normally in all three cases; a driver.quit() that raised was only logged
StopOutcome(q) ==
    IF q = "none" THEN "stop: stopped, no session"
    ELSE IF q = "ok" THEN "stop: stopped, browser closed"
    ELSE "stop: stopped, error closing browser logged"

\* stop: log "SeleniumManager stopped", release setup_lock, return
StopReturn ==
    /\ lpc = "stop_ret"
    /\ setup_lock' = FALSE
    /\ lpc' = "idle"
    /\ lastRet' = Ret(Lifecycle, StopOutcome(lquit), None, None)
    /\ lquit' = "none"
    /\ UNCHANGED <<running, driver, task_queue, worker_thread, wpc, wtask,
                   wdriver, wapproach, nput, func, result, exception,
                   completed, nsess, quit, cpc, ctask, execLog, rvars, dvars>>

\* submitters that have passed the running test and not yet put their Task
Putting == {c \in Submitters : cpc[c] = "put"}

\* SeleniumManager.add_task on a stopped engine (also reached from
\* execute_task): RuntimeError
AddTaskStopped(c) ==
    /\ cpc[c] = "idle"
    /\ ~running
    /\ lastRet' = Ret(c, "RuntimeError", None, None)
    /\ UNCHANGED <<running, driver, task_queue, worker_thread, setup_lock,
                   wpc, wtask, wdriver, wapproach, nput, func, result,
                   exception, completed, nsess, quit, lpc, lquit, cpc, ctask,
                   execLog, rvars, dvars>>

\* add_task on a running engine, first part: the `if not self.running`
\* test passes and the Task is created
AddTaskBegin(c) ==
    /\ cpc[c] = "idle"
    /\ running
    /\ nput + Cardinality(Putting) < MaxTasks
    /\ cpc' = [cpc EXCEPT ![c] = "put"]
    /\ lastRet' = NoRet
    /\ UNCHANGED <<running, driver, task_queue, worker_thread, setup_lock,
                   wpc, wtask, wdriver, wapproach, nput, func, result,
                   exception, completed, nsess, quit, lpc, lquit, ctask,
                   execLog, rvars, dvars>>

\* the same, in the behaviours where stop() is called too
AddTaskBeginWithStop(c) ==
    /\ nput + Cardinality(Putting) < MaxTasksWithStop
    /\ AddTaskBegin(c)

\* add_task, second part: self.task_queue.put(task); return task.
\* op = "add" is a plain add_task, which returns the Task; op = "exec" is
\* execute_task, which goes on to task.wait_for_completion(timeout).
\* f is the function the caller passed in.
AddTaskPut(c, op, f) ==
    /\ cpc[c] = "put"
    /\ LET t == nput + 1 IN
       /\ nput' = t
       /\ task_queue' = Append(task_queue, t)
       /\ func' = [func EXCEPT ![t] = f]
       /\ IF op = "add"
             THEN /\ cpc' = [cpc EXCEPT ![c] = "idle"]
                  /\ lastRet' = Ret(c, "Task", t, None)
                                /\ UNCHANGED ctask
             ELSE /\ cpc' = [cpc EXCEPT ![c] = "wait"]
                  /\ ctask' = [ctask EXCEPT ![c] = t]
                  /\ lastRet' = NoRet
    /\ UNCHANGED <<running, driver, worker_thread, setup_lock, wpc, wtask,
                   wdriver, wapproach, result, exception, completed, nsess,
                   quit, lpc, lquit, execLog, rvars, dvars>>

\* Task.wait_for_completion when completed is set: raise the recorded
\* exception or return the result
WaitCompleted(c) ==
    /\ cpc[c] = "wait"
    /\ completed[ctask[c]]
    /\ cpc' = [cpc EXCEPT ![c] = "idle"]
    /\ lastRet' = IF exception[ctask[c]] # "none"
                     THEN Ret(c, exception[ctask[c]], ctask[c], None)
                     ELSE Ret(c, "result", ctask[c], result[ctask[c]])
    /\ ctask' = [ctask EXCEPT ![c] = None]
    /\ UNCHANGED <<running, driver, task_queue, worker_thread, setup_lock,
                   wpc, wtask, wdriver, wapproach, nput, func, result,
                   exception, completed, nsess, quit, lpc, lquit, execLog,
                   rvars, dvars>>

\* a wait_for_completion whose timeout cancels the unit: a unit still
\* queued is taken off the queue
WaitTimeoutCancels(c) ==
    /\ cpc[c] = "wait"
    /\ ~completed[ctask[c]]
    /\ cpc' = [cpc EXCEPT ![c] = "idle"]
    /\ lastRet' = Ret(c, "TimeoutError", ctask[c], None)
    /\ ctask' = [ctask EXCEPT ![c] = None]
    /\ task_queue' = SelectSeq(task_queue, LAMBDA x : x # ctask[c])
    /\ UNCHANGED <<running, driver, worker_thread, setup_lock, wpc, wtask,
                   wdriver, wapproach, nput, func, result, exception,
                   completed, nsess, quit, lpc, lquit, execLog, rvars, dvars>>

\* Task.wait_for_completion when the timeout passes first: TimeoutError
WaitTimeout(c) ==
    /\ cpc[c] = "wait"
    /\ ~completed[ctask[c]]
    /\ cpc' = [cpc EXCEPT ![c] = "idle"]
    /\ lastRet' = Ret(c, "TimeoutError", ctask[c], None)
    /\ ctask' = [ctask EXCEPT ![c] = None]
    /\ UNCHANGED <<running, driver, task_queue, worker_thread, setup_lock,
                   wpc, wtask, wdriver, wapproach, nput, func, result,
                   exception, completed, nsess, quit, lpc, lquit, execLog,
                   rvars, dvars>>

(* ------------------------- SolanaRPCClient ----------------------------- *)

\* length of the endpoint pool SOLANA_RPC_URLS may be configured with
MaxUrls == 2
\* largest max_retries a caller passes to _retry_request
MaxRetries == 3

Urls == 1..MaxUrls

\* what one call of request_func can do: raise, return a falsy response,
\* return a response whose value is None, is empty, or holds data
Outcomes == {"raises", "no response", "value None", "value empty",
             "value data"}

\* `if response and response.value is not None`
Accepted(o) == o \in {"value empty", "value data"}

\* SolanaRPCClient.__init__ for some configured pool: a random member is
\* the current endpoint and a Client is built for it
RpcInit ==
    /\ rpc_urls \in (SUBSET Urls) \ {{}}
    /\ current_rpc_url \in rpc_urls
    /\ client = current_rpc_url
    /\ max_retries = 0
    /\ attempt = 0
    /\ rpc_pc = "idle"
    /\ bound = 0
    /\ callLog = <<>>
    /\ switches = 0
    /\ response = "none"

\* the retry helper is not in use while the engine runs
RpcIdle ==
    /\ rpc_urls = {1}
    /\ current_rpc_url = 1
    /\ client = 1
    /\ max_retries = 0
    /\ attempt = 0
    /\ rpc_pc = "idle"
    /\ bound = 0
    /\ callLog = <<>>
    /\ switches = 0
    /\ response = "none"

\* the entry of self._retry_request(self.client.<method>, ...,
\* max_retries=m): request_func is a method bound to the Client object of
\* this moment; the loop starts with attempt 0
Invoke(m) ==
    /\ rpc_pc \in {"idle", "done"}
    /\ max_retries' = m
    /\ attempt' = 0
    /\ bound' = client
    /\ callLog' = <<>>
    /\ switches' = 0
    /\ response' = "none"
    /\ rpc_pc' = "call"
    /\ UNCHANGED <<rpc_urls, current_rpc_url, client>>

\* _retry_request called on its own, with any max_retries
RetryInvoke(m) ==
    /\ Invoke(m)
    /\ UNCHANGED <<evars, dvars>>

\* a try block without its except clause: an exception of request_func
\* leaves _retry_request
RetryCallNoExcept(o) ==
    /\ rpc_pc = "call"
    /\ callLog' = Append(callLog, [url |-> bound, current |-> current_rpc_url,
                                   attempt |-> attempt, outcome |-> o])
    /\ IF Accepted(o) \/ o = "raises"
          THEN /\ response' = IF o = "raises" THEN "exception" ELSE o
               /\ rpc_pc' = "done"
               /\ UNCHANGED attempt
          ELSE IF attempt + 1 <= max_retries
                  THEN /\ attempt' = attempt + 1
                       /\ rpc_pc' = "backoff"
                       /\ UNCHANGED response
                  ELSE /\ response' = "None"
                       /\ rpc_pc' = "done"
                       /\ UNCHANGED attempt
    /\ UNCHANGED <<rpc_urls, current_rpc_url, client, max_retries, bound,
                   switches, evars, dvars>>

\* the try block of one attempt: request_func is called; an accepted
\* response is returned, anything else (an exception included) moves to the
\* next value of `attempt`, and past the last one the helper returns None
RetryCall(o) ==
    /\ rpc_pc = "call"
    /\ callLog' = Append(callLog, [url |-> bound, current |-> current_rpc_url,
                                   attempt |-> attempt, outcome |-> o])
    /\ IF Accepted(o)
          THEN /\ response' = o
               /\ rpc_pc' = "done"
               /\ UNCHANGED attempt
          ELSE IF attempt + 1 <= max_retries
                  THEN /\ attempt' = attempt + 1
                       /\ rpc_pc' = "backoff"
                       /\ UNCHANGED response
                  ELSE /\ response' = "None"
                       /\ rpc_pc' = "done"
                       /\ UNCHANGED attempt
    /\ UNCHANGED <<rpc_urls, current_rpc_url, client, max_retries, bound,
                   switches, evars, dvars>>

\* a choice among all the URLs of the pool, the current one included
all_urls == rpc_urls

\* _switch_rpc_url: the pool without the current endpoint
remaining_urls == {url \in rpc_urls : url # current_rpc_url}

\* a backoff that switches the endpoint before every retry
RetryBackoffSwitchesAlways ==
    /\ rpc_pc = "backoff"
    /\ IF remaining_urls # {}
          THEN /\ \E url \in remaining_urls :
                     /\ current_rpc_url' = url
                     /\ client' = url
               /\ switches' = switches + 1
               /\ rpc_pc' = "call"
               /\ UNCHANGED response
          ELSE /\ response' = "None"
               /\ rpc_pc' = "done"
               /\ UNCHANGED <<current_rpc_url, client, switches>>
    /\ UNCHANGED <<rpc_urls, max_retries, attempt, bound, callLog, evars,
                   dvars>>

\* the top of an attempt > 0: sleep 2 ** attempt; on attempt 1 call
\* _switch_rpc_url, which moves to a random other endpoint of the pool and
\* builds a new Client, or returns False, and then the loop is left
\* (`break`) and the helper returns None
RetryBackoff ==
    /\ rpc_pc = "backoff"
    /\ IF attempt = 1
          THEN IF remaining_urls # {}
                  THEN /\ \E url \in remaining_urls :
                             /\ current_rpc_url' = url
                             /\ client' = url
                       /\ switches' = switches + 1
                       /\ rpc_pc' = "call"
                       /\ UNCHANGED response
                  ELSE /\ response' = "None"
                       /\ rpc_pc' = "done"
                       /\ UNCHANGED <<current_rpc_url, client, switches>>
          ELSE /\ rpc_pc' = "call"
               /\ UNCHANGED <<current_rpc_url, client, switches, response>>
    /\ UNCHANGED <<rpc_urls, max_retries, attempt, bound, callLog, evars,
                   dvars>>

(* ------------- discovery and history functions (part 3) ----------------- *)

\* AXIOM_PROGRAM_IDS of solana_rpc_client.py, AXIOM_PROGRAM_ID of
\* solscan_scraper.py: the same two IDs
AXIOM_PROGRAM_IDS == <<"AxiomfHaWDemCFBLBayqnEnNwE6b7B2Qz3UmzMpgbMG6",
                       "AxiomxSitiyXyPjKgJ9XSrdhsydtZsskZTEDam3PxKcC">>

Axiom == {AXIOM_PROGRAM_IDS[i] : i \in 1..Len(AXIOM_PROGRAM_IDS)}

\* largest max_addresses a caller asks for
MaxAddresses == 2
\* longest signature history of an account
MaxHistory == 3
\* `limit`, the page size of get_signatures_for_address (1000 in the source),
\* scaled down so that a history can be longer than one page
limit == 2
\* longest account-key list of a transaction
MaxKeys == 2
\* longest pre / post token balance list of a transaction
MaxBalances == 2
\* longest list of log messages of a transaction
MaxLogs == 2
\* most instructions in the message of a transaction
MaxInstructions == 2
\* largest token amount and largest balance in lamports
MaxAmount == 1
\* most rows in one table of the Solscan page
MaxRows == 2
\* most balance-change records collected under one signature
MaxRecords == 2
\* largest number written in a relative time text
MaxCount == 12
\* longest duration_seconds a caller passes
MaxDuration == 3
\* number of threads constructing SeleniumManager()
NumConstructors == 2
\* number of constructions in one behaviour
MaxConstructions == 3

Constructors == 1..NumConstructors
\* longest time one activity and the delay after it take, in seconds
MaxStep == 2
\* max_pages of extract_table_data_task
max_pages == 50
\* max_pages of extract_address_transactions_task
max_pages_transactions == 1
\* max_pages of extract_balance_changes_task
max_pages_balance == 50
\* max_retries of _retry_request when the caller passes none
default_max_retries == 3

\* wallets that sign transactions; the address get_address_transactions
\* inspects is one of them
Wallets == {"wallet1", "wallet2", "wallet3"}
Address == "wallet1"

\* what an account key or a "by" link can be
Keys == Wallets \cup Axiom

\* the account_keys list of a transaction
AccountKeyLists == UNION {[1..n -> Keys] : n \in 0..MaxKeys}

\* what a link in the programs column of a table row can point to
ProgramLinks == Axiom \cup {"11111111111111111111111111111111"}

Min(a, b) == IF a < b THEN a ELSE b

\* list(s) for a set s: its members in some order
Lists(s) ==
    {l \in [1..Cardinality(s) -> s] :
        \A i, j \in 1..Cardinality(s) : i # j => l[i] # l[j]}

\* l[:n]
Take(l, n) == SubSeq(l, 1, Min(n, Len(l)))

\* set(l)
Range(l) == {l[i] : i \in 1..Len(l)}

NoReq == [method |-> "none", account |-> "none", before |-> 0, limit |-> 0,
          signature |-> 0]

\* self.client.get_signatures_for_address(account, before=b, limit=l)
SigReq(a, b, l) ==
    [method |-> "get_signatures_for_address", account |-> a, before |-> b,
     limit |-> l, signature |-> 0]

\* self.client.get_account_info(metadata account of mint)
InfoReq(mint) ==
    [method |-> "get_account_info", account |-> mint, before |-> 0,
     limit |-> 0, signature |-> 0]

\* self.client.get_transaction(signature, ...)
TxReq(a, s) ==
    [method |-> "get_transaction", account |-> a, before |-> 0, limit |-> 0,
     signature |-> s]

\* the RPC node: the signatures of an account are numbered 1, 2, ... from the
\* newest; a listing returns the r.limit signatures that follow r.before
Page(r) ==
    LET first == r.before + 1
        last == Min(r.before + r.limit, hist[r.account])
    IN  [i \in 1..(IF last < first THEN 0 ELSE last - first + 1) |->
            first + i - 1]

\* what one call of request_func can do for the request in progress: it
\* raises (transport or RPC error) or returns a response; the value of a
\* signature listing is the page, which is empty past the end of the
\* history, the value of get_transaction and of get_account_info is the
\* object asked for or None
Answers(r) ==
    IF r.method = "get_signatures_for_address"
       THEN {"raises", IF Page(r) # <<>> THEN "value data" ELSE "value empty"}
       ELSE {"raises", "value None", "value data"}

\* one call of request_func made by _retry_request for the request in
\* progress
ServerCall ==
    /\ rpc_pc = "call"
    /\ req.method # "none"
    /\ \E o \in Answers(req) : RetryCall(o)

\* no transaction: no log messages, no instructions, no fee, no balances
NoTx ==
    [log_messages |-> <<>>, instructions |-> 0, fee |-> 0,
     pre_balances |-> <<>>, post_balances |-> <<>>]

\* a row of the account table that can be read: the address of its "by"
\* link and the program IDs its programs column links to
TableRows == [kind : {"row"}, by : Keys, links : SUBSET ProgramLinks]

\* rows on which reading a cell or a link raises, whatever their links
BadTableRows == [kind : {"error"}, by : {Address}, links : {{}, ProgramLinks}]

\* no row has been read
NoRow == [kind |-> "none", by |-> Address, links |-> {}]

\* the singleton has been constructed once and no construction is going on
Constructed ==
    /\ instance = 1
    /\ created = 1
    /\ initialized = "True"
    /\ new_lock = FALSE
    /\ kpc = [k \in Constructors |-> "idle"]
    /\ nconstructions = 0
    /\ inits = 1

\* no function of part 3 has been called
FunctionsIdle ==
    /\ pc = "idle"
    /\ caller = "main"
    /\ program_id = "none"
    /\ max_addresses = 0
    /\ unique_addresses = {}
    /\ before = 0
    /\ value = <<>>
    /\ sig_i = 0
    /\ req = NoReq
    /\ returned = [fn |-> "none"]
    /\ tr_i = 0
    /\ all_addresses = {}
    /\ transactions = <<>>
    /\ page_count = 0
    /\ rows_left = 0
    /\ hist = [a \in Keys |-> 0]
    /\ fresh = 0
    /\ requests = <<>>
    /\ examined = <<>>
    /\ signers = {}
    /\ address_idx = -1
    /\ token_bal_changes = <<>>
    /\ n_pre = 0
    /\ n_post = 0
    /\ emit_i = 0
    /\ changes = <<>>
    /\ pre_sol_bals = <<>>
    /\ post_sol_bals = <<>>
    /\ pre_items = {}
    /\ post_items = {}
    /\ transaction = NoTx
    /\ should_continue = FALSE
    /\ clicks = 0
    /\ rows_seen = <<>>
    /\ cutoff_seen = FALSE
    /\ signatures = <<>>
    /\ found_signatures = {}
    /\ balance_changes = [s \in 1..MaxRows |-> <<>>]
    /\ failure = "none"
    /\ time_text = <<>>
    /\ now = 0
    /\ row = NoRow
    /\ duration_seconds = 0
    /\ elapsed = 0
    /\ activity_type = 0
    /\ failures = 0
    /\ errors_logged = 0
    /\ controls = [i \in 1..6 |-> "none"]
    /\ next_button = "none"

\* the state of part 3 when the program has constructed its SeleniumManager
ServiceIdle == FunctionsIdle /\ Constructed

\* an extraction that takes the first account key whatever it is
extract_addresses_any_signer(account_keys) ==
    IF account_keys # <<>> THEN {account_keys[1]} ELSE {}

\* _extract_addresses_from_transaction: the first account key, unless it is
\* one of the Axiom programs
extract_addresses_from_transaction(account_keys) ==
    IF account_keys # <<>> /\ account_keys[1] \notin Axiom
        THEN {account_keys[1]}
        ELSE {}

\* _transaction_involves_axiom: some account key is an Axiom program
transaction_involves_axiom(account_keys) ==
    \E i \in 1..Len(account_keys) : account_keys[i] \in Axiom

\* how many keys of an account-key list are Axiom program IDs
AxiomKeys(account_keys) ==
    Cardinality({i \in 1..Len(account_keys) : account_keys[i] \in Axiom})

\* the entry of get_program_accounts(p, max_addresses)
EnterProgramAccounts(p) ==
    /\ program_id' = p
    /\ unique_addresses' = {}
    /\ before' = 0
    /\ requests' = <<>>
    /\ signers' = {}
    /\ pc' = "pa_while"

\* main calls get_program_accounts(p, n) for a program with h signatures
GetProgramAccounts(p, n, h) ==
    /\ pc = "idle"
    /\ caller' = "main"
    /\ max_addresses' = n
    /\ hist' = [a \in Keys |-> IF a = p THEN h ELSE 0]
    /\ EnterProgramAccounts(p)
    /\ UNCHANGED <<value, sig_i, req, returned, tr_i, all_addresses,
                   transactions, page_count, rows_left, fresh, examined,
                   address_idx, token_bal_changes, n_pre, n_post, emit_i,
                   changes, pre_sol_bals, post_sol_bals, pre_items,
                   post_items, transaction, should_continue, clicks,
                   rows_seen, cutoff_seen, signatures, found_signatures,
                   balance_changes, failure, time_text, now, row,
                   duration_seconds, elapsed, activity_type, failures,
                   errors_logged, controls, next_button, instance, created,
                   initialized, new_lock, kpc, nconstructions, inits, rvars,
                   evars>>

\* `while len(unique_addresses) < max_addresses:` and the signature request
\* of one page
PA_While ==
    /\ pc = "pa_while"
    /\ IF Cardinality(unique_addresses) < max_addresses
          THEN /\ Invoke(default_max_retries)
               /\ req' = SigReq(program_id, before,
                                Min(limit, max_addresses -
                                           Cardinality(unique_addresses)))
               /\ requests' =
                     Append(requests,
                            [before |-> before,
                             limit |-> Min(limit, max_addresses -
                                           Cardinality(unique_addresses))])
               /\ pc' = "pa_page"
          ELSE /\ pc' = "pa_return"
               /\ UNCHANGED <<req, requests, rvars>>
    /\ UNCHANGED <<caller, program_id, max_addresses, unique_addresses,
                   before, value, sig_i, returned, tr_i, all_addresses,
                   transactions, page_count, rows_left, hist, fresh,
                   examined, signers, address_idx, token_bal_changes, n_pre,
                   n_post, emit_i, changes, pre_sol_bals, post_sol_bals,
                   pre_items, post_items, transaction, should_continue,
                   clicks, rows_seen, cutoff_seen, signatures,
                   found_signatures, balance_changes, failure, time_text,
                   now, row, duration_seconds, elapsed, activity_type,
                   failures, errors_logged, controls, next_button, instance,
                   created, initialized, new_lock, kpc, nconstructions,
                   inits, evars>>

\* the signature request has returned: `if not response or not
\* response.value: break`, else the for loop over the page starts. An
\* exception leaving _retry_request would leave get_program_accounts too.
PA_Page ==
    /\ pc = "pa_page"
    /\ rpc_pc = "done"
    /\ IF response = "exception"
          THEN /\ pc' = "raised"
               /\ UNCHANGED <<value, sig_i>>
          ELSE IF response = "value data"
                  THEN /\ value' = Page(req)
                       /\ sig_i' = 1
                       /\ pc' = "pa_for"
                  ELSE /\ pc' = "pa_return"
                       /\ UNCHANGED <<value, sig_i>>
    /\ UNCHANGED <<caller, program_id, max_addresses, unique_addresses,
                   before, req, returned, tr_i, all_addresses, transactions,
                   page_count, rows_left, hist, fresh, requests, examined,
                   signers, address_idx, token_bal_changes, n_pre, n_post,
                   emit_i, changes, pre_sol_bals, post_sol_bals, pre_items,
                   post_items, transaction, should_continue, clicks,
                   rows_seen, cutoff_seen, signatures, found_signatures,
                   balance_changes, failure, time_text, now, row,
                   duration_seconds, elapsed, activity_type, failures,
                   errors_logged, controls, next_button, instance, created,
                   initialized, new_lock, kpc, nconstructions, inits, rvars,
                   evars>>

\* `for sig_info in response.value:` and the get_transaction request
PA_FetchTx ==
    /\ pc = "pa_for"
    /\ sig_i <= Len(value)
    /\ Invoke(default_max_retries)
    /\ req' = TxReq(program_id, value[sig_i])
    /\ pc' = "pa_tx"
    /\ UNCHANGED <<caller, program_id, max_addresses, unique_addresses,
                   before, value, sig_i, returned, tr_i, all_addresses,
                   transactions, page_count, rows_left, hist, fresh,
                   requests, examined, signers, address_idx,
                   token_bal_changes, n_pre, n_post, emit_i, changes,
                   pre_sol_bals, post_sol_bals, pre_items, post_items,
                   transaction, should_continue, clicks, rows_seen,
                   cutoff_seen, signatures, found_signatures,
                   balance_changes, failure, time_text, now, row,
                   duration_seconds, elapsed, activity_type, failures,
                   errors_logged, controls, next_button, instance, created,
                   initialized, new_lock, kpc, nconstructions, inits, evars>>

\* the transaction request has returned: a transaction that was fetched
\* contributes its signer, and the for loop is left when the target is
\* reached
PA_Tx ==
    /\ pc = "pa_tx"
    /\ rpc_pc = "done"
    /\ IF response = "exception"
          THEN /\ pc' = "raised"
               /\ UNCHANGED <<unique_addresses, sig_i, signers>>
          ELSE /\ pc' = "pa_for"
               /\ IF response = "value data"
                     THEN \E account_keys \in AccountKeyLists :
                            LET u == unique_addresses \cup
                                     extract_addresses_from_transaction(
                                         account_keys)
                            IN  /\ unique_addresses' = u
                                /\ signers' = signers \cup
                                      ({account_keys[i] : i \in
                                          {1} \cap DOMAIN account_keys}
                                       \cap Axiom)
                                /\ sig_i' = IF Cardinality(u) >= max_addresses
                                               THEN Len(value) + 1
                                               ELSE sig_i + 1
                     ELSE /\ sig_i' = sig_i + 1
                          /\ UNCHANGED <<unique_addresses, signers>>
    /\ UNCHANGED <<caller, program_id, max_addresses, before, value, req,
                   returned, tr_i, all_addresses, transactions, page_count,
                   rows_left, hist, fresh, requests, examined, address_idx,
                   token_bal_changes, n_pre, n_post, emit_i, changes,
                   pre_sol_bals, post_sol_bals, pre_items, post_items,
                   transaction, should_continue, clicks, rows_seen,
                   cutoff_seen, signatures, found_signatures,
                   balance_changes, failure, time_text, now, row,
                   duration_seconds, elapsed, activity_type, failures,
                   errors_logged, controls, next_button, instance, created,
                   initialized, new_lock, kpc, nconstructions, inits, rvars,
                   evars>>

\* a pagination that keeps its cursor
PA_NextPageSameCursor ==
    /\ pc = "pa_for"
    /\ sig_i > Len(value)
    /\ pc' = "pa_while"
    /\ UNCHANGED before
    /\ UNCHANGED <<caller, program_id, max_addresses, unique_addresses,
                   value, sig_i, req, returned, tr_i, all_addresses,
                   transactions, page_count, rows_left, hist, fresh,
                   requests, examined, signers, address_idx,
                   token_bal_changes, n_pre, n_post, emit_i, changes,
                   pre_sol_bals, post_sol_bals, pre_items, post_items,
                   transaction, should_continue, clicks, rows_seen,
                   cutoff_seen, signatures, found_signatures,
                   balance_changes, failure, time_text, now, row,
                   duration_seconds, elapsed, activity_type, failures,
                   errors_logged, controls, next_button, instance, created,
                   initialized, new_lock, kpc, nconstructions, inits, rvars,
                   evars>>

\* after the for loop: `before = response.value[-1].signature`
PA_NextPage ==
    /\ pc = "pa_for"
    /\ sig_i > Len(value)
    /\ before' = value[Len(value)]
    /\ pc' = "pa_while"
    /\ UNCHANGED <<caller, program_id, max_addresses, unique_addresses,
                   value, sig_i, req, returned, tr_i, all_addresses,
                   transactions, page_count, rows_left, hist, fresh,
                   requests, examined, signers, address_idx,
                   token_bal_changes, n_pre, n_post, emit_i, changes,
                   pre_sol_bals, post_sol_bals, pre_items, post_items,
                   transaction, should_continue, clicks, rows_seen,
                   cutoff_seen, signatures, found_signatures,
                   balance_changes, failure, time_text, now, row,
                   duration_seconds, elapsed, activity_type, failures,
                   errors_logged, controls, next_button, instance, created,
                   initialized, new_lock, kpc, nconstructions, inits, rvars,
                   evars>>

\* the result dict of get_program_accounts
PA_Return ==
    /\ pc = "pa_return"
    /\ \E l \in Lists(unique_addresses) :
          returned' = [fn |-> "get_program_accounts",
                       program_id |-> program_id,
                       unique_addresses |-> Take(l, max_addresses),
                       total_found |-> Min(Cardinality(unique_addresses),
                                           max_addresses),
                       target_count |-> max_addresses]
    /\ pc' = IF caller = "main" THEN "done" ELSE "tr_got"
    /\ UNCHANGED <<caller, program_id, max_addresses, unique_addresses,
                   before, value, sig_i, req, tr_i, all_addresses,
                   transactions, page_count, rows_left, hist, fresh,
                   requests, examined, signers, address_idx,
                   token_bal_changes, n_pre, n_post, emit_i, changes,
                   pre_sol_bals, post_sol_bals, pre_items, post_items,
                   transaction, should_continue, clicks, rows_seen,
                   cutoff_seen, signatures, found_signatures,
                   balance_changes, failure, time_text, now, row,
                   duration_seconds, elapsed, activity_type, failures,
                   errors_logged, controls, next_button, instance, created,
                   initialized, new_lock, kpc, nconstructions, inits, rvars,
                   evars>>

\* main calls get_axiom_traders(n); the two programs have h1 and h2
\* signatures
GetAxiomTraders(n, h1, h2) ==
    /\ pc = "idle"
    /\ caller' = "get_axiom_traders"
    /\ max_addresses' = n
    /\ hist' = [a \in Keys |-> IF a = AXIOM_PROGRAM_IDS[1] THEN h1
                               ELSE IF a = AXIOM_PROGRAM_IDS[2] THEN h2
                               ELSE 0]
    /\ tr_i' = 1
    /\ all_addresses' = {}
    /\ pc' = "tr_for"
    /\ UNCHANGED <<program_id, unique_addresses, before, value, sig_i, req,
                   returned, transactions, page_count, rows_left, fresh,
                   requests, examined, signers, address_idx,
                   token_bal_changes, n_pre, n_post, emit_i, changes,
                   pre_sol_bals, post_sol_bals, pre_items, post_items,
                   transaction, should_continue, clicks, rows_seen,
                   cutoff_seen, signatures, found_signatures,
                   balance_changes, failure, time_text, now, row,
                   duration_seconds, elapsed, activity_type, failures,
                   errors_logged, controls, next_button, instance, created,
                   initialized, new_lock, kpc, nconstructions, inits, rvars,
                   evars>>

\* `for program_id in AXIOM_PROGRAM_IDS:` and the call of
\* get_program_accounts
TR_For ==
    /\ pc = "tr_for"
    /\ EnterProgramAccounts(AXIOM_PROGRAM_IDS[tr_i])
    /\ UNCHANGED <<caller, max_addresses, value, sig_i, req, returned, tr_i,
                   all_addresses, transactions, page_count, rows_left, hist,
                   fresh, examined, address_idx, token_bal_changes, n_pre,
                   n_post, emit_i, changes, pre_sol_bals, post_sol_bals,
                   pre_items, post_items, transaction, should_continue,
                   clicks, rows_seen, cutoff_seen, signatures,
                   found_signatures, balance_changes, failure, time_text,
                   now, row, duration_seconds, elapsed, activity_type,
                   failures, errors_logged, controls, next_button, instance,
                   created, initialized, new_lock, kpc, nconstructions,
                   inits, rvars, evars>>

\* get_program_accounts has returned: the addresses are added, and the loop
\* is left when the target is reached or the programs are exhausted
TR_Got ==
    /\ pc = "tr_got"
    /\ LET a == all_addresses \cup Range(returned.unique_addresses)
       IN  /\ all_addresses' = a
           /\ IF Cardinality(a) >= max_addresses \/
                 tr_i = Len(AXIOM_PROGRAM_IDS)
                 THEN /\ pc' = "tr_return"
                      /\ UNCHANGED tr_i
                 ELSE /\ pc' = "tr_for"
                      /\ tr_i' = tr_i + 1
    /\ UNCHANGED <<caller, program_id, max_addresses, unique_addresses,
                   before, value, sig_i, req, returned, transactions,
                   page_count, rows_left, hist, fresh, requests, examined,
                   signers, address_idx, token_bal_changes, n_pre, n_post,
                   emit_i, changes, pre_sol_bals, post_sol_bals, pre_items,
                   post_items, transaction, should_continue, clicks,
                   rows_seen, cutoff_seen, signatures, found_signatures,
                   balance_changes, failure, time_text, now, row,
                   duration_seconds, elapsed, activity_type, failures,
                   errors_logged, controls, next_button, instance, created,
                   initialized, new_lock, kpc, nconstructions, inits, rvars,
                   evars>>

\* `final_addresses = list(all_addresses)[:max_addresses]`
TR_Return ==
    /\ pc = "tr_return"
    /\ \E l \in Lists(all_addresses) :
          returned' = [fn |-> "get_axiom_traders",
                       final_addresses |-> Take(l, max_addresses)]
    /\ pc' = "done"
    /\ UNCHANGED <<caller, program_id, max_addresses, unique_addresses,
                   before, value, sig_i, req, tr_i, all_addresses,
                   transactions, page_count, rows_left, hist, fresh,
                   requests, examined, signers, address_idx,
                   token_bal_changes, n_pre, n_post, emit_i, changes,
                   pre_sol_bals, post_sol_bals, pre_items, post_items,
                   transaction, should_continue, clicks, rows_seen,
                   cutoff_seen, signatures, found_signatures,
                   balance_changes, failure, time_text, now, row,
                   duration_seconds, elapsed, activity_type, failures,
                   errors_logged, controls, next_button, instance, created,
                   initialized, new_lock, kpc, nconstructions, inits, rvars,
                   evars>>

\* get_address_transactions(Address, days) starts for an address with h
\* signatures, of which the f newest are newer than the cutoff: the one
\* signature request is sent
EnterAddressTransactions(h, f) ==
    /\ hist' = [a \in Keys |-> IF a = Address THEN h ELSE 0]
    /\ fresh' = f
    /\ Invoke(default_max_retries)
    /\ req' = SigReq(Address, 0, limit)
    /\ requests' = <<[before |-> 0, limit |-> limit]>>
    /\ pc' = "at_page"

\* main calls get_address_transactions(Address, days)
GetAddressTransactions(h, f) ==
    /\ pc = "idle"
    /\ caller' = "main"
    /\ EnterAddressTransactions(h, f)
    /\ UNCHANGED <<program_id, max_addresses, unique_addresses, before,
                   value, sig_i, returned, tr_i, all_addresses, transactions,
                   page_count, rows_left, examined, signers, address_idx,
                   token_bal_changes, n_pre, n_post, emit_i, changes,
                   pre_sol_bals, post_sol_bals, pre_items, post_items,
                   transaction, should_continue, clicks, rows_seen,
                   cutoff_seen, signatures, found_signatures,
                   balance_changes, failure, time_text, now, row,
                   duration_seconds, elapsed, activity_type, failures,
                   errors_logged, controls, next_button, instance, created,
                   initialized, new_lock, kpc, nconstructions, inits, evars>>

\* main calls get_trading_history(Address, days), which calls
\* get_address_transactions on a new client
GetTradingHistory(h, f) ==
    /\ pc = "idle"
    /\ caller' = "get_trading_history"
    /\ EnterAddressTransactions(h, f)
    /\ UNCHANGED <<program_id, max_addresses, unique_addresses, before,
                   value, sig_i, returned, tr_i, all_addresses, transactions,
                   page_count, rows_left, examined, signers, address_idx,
                   token_bal_changes, n_pre, n_post, emit_i, changes,
                   pre_sol_bals, post_sol_bals, pre_items, post_items,
                   transaction, should_continue, clicks, rows_seen,
                   cutoff_seen, signatures, found_signatures,
                   balance_changes, failure, time_text, now, row,
                   duration_seconds, elapsed, activity_type, failures,
                   errors_logged, controls, next_button, instance, created,
                   initialized, new_lock, kpc, nconstructions, inits, evars>>

\* the signature request has returned: `if not response or not
\* response.value:` return the empty result, else the for loop starts (a
\* request that got no response at all is noted as a failure of the node)
AT_Page ==
    /\ pc = "at_page"
    /\ rpc_pc = "done"
    /\ IF response = "exception"
          THEN /\ pc' = "raised"
               /\ UNCHANGED <<value, sig_i>>
          ELSE IF response = "value data"
                  THEN /\ value' = Page(req)
                       /\ sig_i' = 1
                       /\ pc' = "at_for"
                  ELSE /\ pc' = "at_return"
                       /\ UNCHANGED <<value, sig_i>>
    /\ failure' = IF response = "None" THEN "rpc" ELSE failure
    /\ UNCHANGED <<caller, program_id, max_addresses, unique_addresses,
                   before, req, returned, tr_i, all_addresses, transactions,
                   page_count, rows_left, hist, fresh, requests, examined,
                   signers, address_idx, token_bal_changes, n_pre, n_post,
                   emit_i, changes, pre_sol_bals, post_sol_bals, pre_items,
                   post_items, transaction, should_continue, clicks,
                   rows_seen, cutoff_seen, signatures, found_signatures,
                   balance_changes, time_text, now, row, duration_seconds,
                   elapsed, activity_type, failures, errors_logged, controls,
                   next_button, instance, created, initialized, new_lock,
                   kpc, nconstructions, inits, rvars, evars>>

\* a for loop that does not skip failed transactions
AT_ForKeepsFailed ==
    /\ pc = "at_for"
    /\ sig_i <= Len(value)
    /\ \E block_time, err \in BOOLEAN :
          IF block_time /\ value[sig_i] > fresh
             THEN /\ pc' = "at_return"
                  /\ UNCHANGED <<sig_i, req, examined, rvars>>
             ELSE /\ examined' =
                       Append(examined,
                              [signature |-> value[sig_i], err |-> err,
                               fetched |-> FALSE, axiom_keys |-> 0])
                  /\ Invoke(default_max_retries)
                  /\ req' = TxReq(Address, value[sig_i])
                  /\ pc' = "at_tx"
                  /\ UNCHANGED sig_i
    /\ UNCHANGED <<caller, program_id, max_addresses, unique_addresses,
                   before, value, returned, tr_i, all_addresses,
                   transactions, page_count, rows_left, hist, fresh,
                   requests, signers, address_idx, token_bal_changes, n_pre,
                   n_post, emit_i, changes, pre_sol_bals, post_sol_bals,
                   pre_items, post_items, transaction, should_continue,
                   clicks, rows_seen, cutoff_seen, signatures,
                   found_signatures, balance_changes, failure, time_text,
                   now, row, duration_seconds, elapsed, activity_type,
                   failures, errors_logged, controls, next_button, instance,
                   created, initialized, new_lock, kpc, nconstructions,
                   inits, evars>>

\* one round of `for sig_info in response.value:` up to the transaction
\* request: a signature with a block time older than the cutoff ends the
\* loop; any other is examined, a failed one is skipped and for the others
\* the transaction is requested
AT_For ==
    /\ pc = "at_for"
    /\ sig_i <= Len(value)
    /\ \E block_time, err \in BOOLEAN :
          IF block_time /\ value[sig_i] > fresh
             THEN /\ pc' = "at_return"
                  /\ UNCHANGED <<sig_i, req, examined, rvars>>
             ELSE /\ examined' =
                       Append(examined,
                              [signature |-> value[sig_i], err |-> err,
                               fetched |-> FALSE, axiom_keys |-> 0])
                  /\ IF err
                        THEN /\ sig_i' = sig_i + 1
                             /\ UNCHANGED <<pc, req, rvars>>
                        ELSE /\ Invoke(default_max_retries)
                             /\ req' = TxReq(Address, value[sig_i])
                             /\ pc' = "at_tx"
                             /\ UNCHANGED sig_i
    /\ UNCHANGED <<caller, program_id, max_addresses, unique_addresses,
                   before, value, returned, tr_i, all_addresses,
                   transactions, page_count, rows_left, hist, fresh,
                   requests, signers, address_idx, token_bal_changes, n_pre,
                   n_post, emit_i, changes, pre_sol_bals, post_sol_bals,
                   pre_items, post_items, transaction, should_continue,
                   clicks, rows_seen, cutoff_seen, signatures,
                   found_signatures, balance_changes, failure, time_text,
                   now, row, duration_seconds, elapsed, activity_type,
                   failures, errors_logged, controls, next_button, instance,
                   created, initialized, new_lock, kpc, nconstructions,
                   inits, evars>>

\* the for loop has gone through the page
AT_ForEnd ==
    /\ pc = "at_for"
    /\ sig_i > Len(value)
    /\ pc' = "at_return"
    /\ UNCHANGED <<caller, program_id, max_addresses, unique_addresses,
                   before, value, sig_i, req, returned, tr_i, all_addresses,
                   transactions, page_count, rows_left, hist, fresh,
                   requests, examined, signers, address_idx,
                   token_bal_changes, n_pre, n_post, emit_i, changes,
                   pre_sol_bals, post_sol_bals, pre_items, post_items,
                   transaction, should_continue, clicks, rows_seen,
                   cutoff_seen, signatures, found_signatures,
                   balance_changes, failure, time_text, now, row,
                   duration_seconds, elapsed, activity_type, failures,
                   errors_logged, controls, next_button, instance, created,
                   initialized, new_lock, kpc, nconstructions, inits, rvars,
                   evars>>

\* the transaction request has returned: a fetched transaction that
\* involves an Axiom program is parsed and appended, with the list
\* _extract_balance_changes gives for it (here its length)
AT_Tx ==
    /\ pc = "at_tx"
    /\ rpc_pc = "done"
    /\ IF response = "exception"
          THEN /\ pc' = "raised"
               /\ UNCHANGED <<sig_i, examined, transactions>>
          ELSE /\ pc' = "at_for"
               /\ sig_i' = sig_i + 1
               /\ IF response = "value data"
                     THEN \E account_keys \in AccountKeyLists :
                            /\ examined' =
                                 [examined EXCEPT ![Len(examined)] =
                                    [@ EXCEPT !.fetched = TRUE,
                                              !.axiom_keys =
                                                 AxiomKeys(account_keys)]]
                            /\ \E n \in 0..MaxRecords :
                                 transactions' =
                                   IF transaction_involves_axiom(account_keys)
                                      THEN Append(transactions,
                                              [signature |-> value[sig_i],
                                               balance_changes |-> n])
                                      ELSE transactions
                     ELSE UNCHANGED <<examined, transactions>>
    /\ UNCHANGED <<caller, program_id, max_addresses, unique_addresses,
                   before, value, req, returned, tr_i, all_addresses,
                   page_count, rows_left, hist, fresh, requests, signers,
                   address_idx, token_bal_changes, n_pre, n_post, emit_i,
                   changes, pre_sol_bals, post_sol_bals, pre_items,
                   post_items, transaction, should_continue, clicks,
                   rows_seen, cutoff_seen, signatures, found_signatures,
                   balance_changes, failure, time_text, now, row,
                   duration_seconds, elapsed, activity_type, failures,
                   errors_logged, controls, next_button, instance, created,
                   initialized, new_lock, kpc, nconstructions, inits, rvars,
                   evars>>

\* _create_transaction_result
AT_Return ==
    /\ pc = "at_return"
    /\ returned' = [fn |-> "get_address_transactions",
                    transactions |-> transactions,
                    total_found |-> Len(transactions)]
    /\ pc' = IF caller = "main" THEN "done" ELSE "th_got"
    /\ UNCHANGED <<caller, program_id, max_addresses, unique_addresses,
                   before, value, sig_i, req, tr_i, all_addresses,
                   transactions, page_count, rows_left, hist, fresh,
                   requests, examined, signers, address_idx,
                   token_bal_changes, n_pre, n_post, emit_i, changes,
                   pre_sol_bals, post_sol_bals, pre_items, post_items,
                   transaction, should_continue, clicks, rows_seen,
                   cutoff_seen, signatures, found_signatures,
                   balance_changes, failure, time_text, now, row,
                   duration_seconds, elapsed, activity_type, failures,
                   errors_logged, controls, next_button, instance, created,
                   initialized, new_lock, kpc, nconstructions, inits, rvars,
                   evars>>

\* the sum of len(tx_item['balance_changes']) over the transactions
RECURSIVE SumBalanceChanges(_)
SumBalanceChanges(txs) ==
    IF txs = <<>> THEN 0
    ELSE Head(txs).balance_changes + SumBalanceChanges(Tail(txs))

\* get_trading_history has tx_result: None when total_found is 0, else the
\* result with its summary
TH_Got ==
    /\ pc = "th_got"
    /\ returned' =
         IF returned.total_found = 0
            THEN [fn |-> "get_trading_history", outcome |-> "None"]
            ELSE [fn |-> "get_trading_history", outcome |-> "result",
                  transactions |-> returned.transactions,
                  total_transactions |-> returned.total_found,
                  balance_changes_found |->
                     SumBalanceChanges(returned.transactions)]
    /\ pc' = "done"
    /\ UNCHANGED <<caller, program_id, max_addresses, unique_addresses,
                   before, value, sig_i, req, tr_i, all_addresses,
                   transactions, page_count, rows_left, hist, fresh,
                   requests, examined, signers, address_idx,
                   token_bal_changes, n_pre, n_post, emit_i, changes,
                   pre_sol_bals, post_sol_bals, pre_items, post_items,
                   transaction, should_continue, clicks, rows_seen,
                   cutoff_seen, signatures, found_signatures,
                   balance_changes, failure, time_text, now, row,
                   duration_seconds, elapsed, activity_type, failures,
                   errors_logged, controls, next_button, instance, created,
                   initialized, new_lock, kpc, nconstructions, inits, rvars,
                   evars>>

\* extract_table_data_task(driver, p, n) starts and the page of the program
\* has loaded
EnterTable(p, n) ==
    /\ program_id' = p
    /\ max_addresses' = n
    /\ unique_addresses' = {}
    /\ page_count' = 0
    /\ clicks' = 0
    /\ pc' = "tb_while"

\* the worker calls extract_table_data_task(driver, p, n)
ExtractTableDataTask(p, n) ==
    /\ pc = "idle"
    /\ EnterTable(p, n)
    /\ UNCHANGED <<caller, before, value, sig_i, req, returned, tr_i,
                   all_addresses, transactions, rows_left, hist, fresh,
                   requests, examined, signers, address_idx,
                   token_bal_changes, n_pre, n_post, emit_i, changes,
                   pre_sol_bals, post_sol_bals, pre_items, post_items,
                   transaction, should_continue, rows_seen, cutoff_seen,
                   signatures, found_signatures, balance_changes, failure,
                   time_text, now, row, duration_seconds, elapsed,
                   activity_type, failures, errors_logged, controls,
                   next_button, instance, created, initialized, new_lock,
                   kpc, nconstructions, inits, rvars, evars>>

\* `while len(unique_addresses) < max_addresses and page_count < max_pages:`
\* and the wait for the table, which yields the table with its rows, times
\* out or fails otherwise
TB_While ==
    /\ pc = "tb_while"
    /\ IF Cardinality(unique_addresses) < max_addresses /\
          page_count < max_pages
          THEN /\ page_count' = page_count + 1
               /\ \E t \in {"table", "TimeoutException", "Exception"} :
                     IF t = "table"
                        THEN /\ \E r \in 0..MaxRows : rows_left' = r
                             /\ pc' = "tb_row"
                        ELSE /\ pc' = "tb_return"
                             /\ UNCHANGED rows_left
          ELSE /\ pc' = "tb_return"
               /\ UNCHANGED <<page_count, rows_left>>
    /\ UNCHANGED <<caller, program_id, max_addresses, unique_addresses,
                   before, value, sig_i, req, returned, tr_i, all_addresses,
                   transactions, hist, fresh, requests, examined, signers,
                   address_idx, token_bal_changes, n_pre, n_post, emit_i,
                   changes, pre_sol_bals, post_sol_bals, pre_items,
                   post_items, transaction, should_continue, clicks,
                   rows_seen, cutoff_seen, signatures, found_signatures,
                   balance_changes, failure, time_text, now, row,
                   duration_seconds, elapsed, activity_type, failures,
                   errors_logged, controls, next_button, instance, created,
                   initialized, new_lock, kpc, nconstructions, inits, rvars,
                   evars>>

\* a for loop over the rows that is not left when the target is reached
TB_RowNoBreak ==
    /\ pc = "tb_row"
    /\ rows_left > 0
    /\ \E r \in TableRows \cup BadTableRows :
          /\ row' = r
          /\ unique_addresses' =
               IF r.kind = "row" /\ r.links \cap Axiom # {}
                  THEN unique_addresses \cup {r.by}
                  ELSE unique_addresses
    /\ rows_left' = rows_left - 1
    /\ UNCHANGED pc
    /\ UNCHANGED <<caller, program_id, max_addresses, before, value, sig_i,
                   req, returned, tr_i, all_addresses, transactions,
                   page_count, hist, fresh, requests, examined, signers,
                   address_idx, token_bal_changes, n_pre, n_post, emit_i,
                   changes, pre_sol_bals, post_sol_bals, pre_items,
                   post_items, transaction, should_continue, clicks,
                   rows_seen, cutoff_seen, signatures, found_signatures,
                   balance_changes, failure, time_text, now,
                   duration_seconds, elapsed, activity_type, failures,
                   errors_logged, controls, next_button, instance, created,
                   initialized, new_lock, kpc, nconstructions, inits, rvars,
                   evars>>

\* a row loop that takes the "by" address of every row it can read
TB_RowAnyLink ==
    /\ pc = "tb_row"
    /\ rows_left > 0
    /\ \E r \in TableRows \cup BadTableRows :
          LET u == IF r.kind = "row" THEN unique_addresses \cup {r.by}
                                     ELSE unique_addresses
          IN  /\ row' = r
              /\ unique_addresses' = u
              /\ rows_left' = IF u # unique_addresses /\
                                 Cardinality(u) >= max_addresses
                                 THEN 0
                                 ELSE rows_left - 1
    /\ UNCHANGED pc
    /\ UNCHANGED <<caller, program_id, max_addresses, before, value, sig_i,
                   req, returned, tr_i, all_addresses, transactions,
                   page_count, hist, fresh, requests, examined, signers,
                   address_idx, token_bal_changes, n_pre, n_post, emit_i,
                   changes, pre_sol_bals, post_sol_bals, pre_items,
                   post_items, transaction, should_continue, clicks,
                   rows_seen, cutoff_seen, signatures, found_signatures,
                   balance_changes, failure, time_text, now,
                   duration_seconds, elapsed, activity_type, failures,
                   errors_logged, controls, next_button, instance, created,
                   initialized, new_lock, kpc, nconstructions, inits, rvars,
                   evars>>

\* one row of the table: a row on which reading raises is skipped; a row
\* whose programs column links to an Axiom program contributes its "by"
\* address, and the for loop is left when the target is reached
TB_Row ==
    /\ pc = "tb_row"
    /\ rows_left > 0
    /\ \E r \in TableRows \cup BadTableRows :
          LET axiom_found == r.links \cap Axiom # {}
              u == IF r.kind = "row" /\ axiom_found /\
                      r.by \notin unique_addresses
                      THEN unique_addresses \cup {r.by}
                      ELSE unique_addresses
          IN  /\ row' = r
              /\ unique_addresses' = u
              /\ rows_left' = IF u # unique_addresses /\
                                 Cardinality(u) >= max_addresses
                                 THEN 0
                                 ELSE rows_left - 1
    /\ UNCHANGED pc
    /\ UNCHANGED <<caller, program_id, max_addresses, before, value, sig_i,
                   req, returned, tr_i, all_addresses, transactions,
                   page_count, hist, fresh, requests, examined, signers,
                   address_idx, token_bal_changes, n_pre, n_post, emit_i,
                   changes, pre_sol_bals, post_sol_bals, pre_items,
                   post_items, transaction, should_continue, clicks,
                   rows_seen, cutoff_seen, signatures, found_signatures,
                   balance_changes, failure, time_text, now,
                   duration_seconds, elapsed, activity_type, failures,
                   errors_logged, controls, next_button, instance, created,
                   initialized, new_lock, kpc, nconstructions, inits, rvars,
                   evars>>

\* after the rows: when more addresses are needed the next-page button is
\* looked up and clicked if it is enabled; a disabled or missing button or
\* an error ends the loop
TB_Next ==
    /\ pc = "tb_row"
    /\ rows_left = 0
    /\ IF Cardinality(unique_addresses) < max_addresses
          THEN \E button \in {"enabled", "disabled", "NoSuchElementException",
                              "Exception"} :
                  /\ pc' = IF button = "enabled" THEN "tb_while"
                                                 ELSE "tb_return"
                  /\ clicks' = IF button = "enabled" THEN clicks + 1
                                                     ELSE clicks
          ELSE /\ pc' = "tb_while"
               /\ UNCHANGED clicks
    /\ UNCHANGED <<caller, program_id, max_addresses, unique_addresses,
                   before, value, sig_i, req, returned, tr_i, all_addresses,
                   transactions, page_count, rows_left, hist, fresh,
                   requests, examined, signers, address_idx,
                   token_bal_changes, n_pre, n_post, emit_i, changes,
                   pre_sol_bals, post_sol_bals, pre_items, post_items,
                   transaction, should_continue, rows_seen, cutoff_seen,
                   signatures, found_signatures, balance_changes, failure,
                   time_text, now, row, duration_seconds, elapsed,
                   activity_type, failures, errors_logged, controls,
                   next_button, instance, created, initialized, new_lock,
                   kpc, nconstructions, inits, rvars, evars>>

\* the result dict of extract_table_data_task
TB_Return ==
    /\ pc = "tb_return"
    /\ \E l \in Lists(unique_addresses) :
          returned' = [fn |-> "extract_table_data_task",
                       program_id |-> program_id,
                       unique_addresses |-> l,
                       total_found |-> Cardinality(unique_addresses),
                       pages_processed |-> page_count,
                       target_count |-> max_addresses]
    /\ pc' = IF caller = "main" THEN "done" ELSE "ss_got"
    /\ UNCHANGED <<caller, program_id, max_addresses, unique_addresses,
                   before, value, sig_i, req, tr_i, all_addresses,
                   transactions, page_count, rows_left, hist, fresh,
                   requests, examined, signers, address_idx,
                   token_bal_changes, n_pre, n_post, emit_i, changes,
                   pre_sol_bals, post_sol_bals, pre_items, post_items,
                   transaction, should_continue, clicks, rows_seen,
                   cutoff_seen, signatures, found_signatures,
                   balance_changes, failure, time_text, now, row,
                   duration_seconds, elapsed, activity_type, failures,
                   errors_logged, controls, next_button, instance, created,
                   initialized, new_lock, kpc, nconstructions, inits, rvars,
                   evars>>

(* ---------------------- _extract_balance_changes ------------------------ *)

Mints == {"mintX", "mintY"}

\* an entry of pre_token_balances / post_token_balances: the account index,
\* the owner, the mint and the amount its uiAmountString denotes
TokenBalances ==
    [accountIndex : 0..(MaxKeys - 1), owner : Wallets, mint : Mints,
     amount : 0..MaxAmount]

\* pre_balances / post_balances: lamports per account index
SolBalances == UNION {[1..n -> 0..MaxAmount] : n \in 0..MaxKeys}

\* the index of the address in the account keys (from 0), -1 when it is not
\* among them
AddressIndex(account_keys) ==
    IF \E i \in 1..Len(account_keys) : account_keys[i] = Address
       THEN (CHOOSE i \in 1..Len(account_keys) :
                /\ account_keys[i] = Address
                /\ \A j \in 1..(i - 1) : account_keys[j] # Address) - 1
       ELSE -1

\* `accountIndex == address_idx or owner == address`
Belongs(bal_item) ==
    bal_item.accountIndex = address_idx \/ bal_item.owner = Address

\* a list of entries instead of a dict keyed by the mint
DictPutAppend(d, entry) ==
    Append(d, entry)

\* token_bal_changes[mint] = entry, on a dict kept in insertion order
DictPut(d, entry) ==
    IF \E i \in 1..Len(d) : d[i].mint = entry.mint
       THEN [i \in 1..Len(d) |-> IF d[i].mint = entry.mint THEN entry ELSE d[i]]
       ELSE Append(d, entry)

\* a merge that gives a mint first met in the post list its post amount
\* as pre amount too
DictPostCopiesPre(d, mint, amount) ==
    IF \E i \in 1..Len(d) : d[i].mint = mint
       THEN [i \in 1..Len(d) |->
               IF d[i].mint = mint THEN [d[i] EXCEPT !.post = amount]
               ELSE d[i]]
       ELSE Append(d, [mint |-> mint, pre |-> amount, post |-> amount])

\* token_bal_changes[mint]['post'] = amount for a mint in the dict, else a
\* new entry with pre 0
DictPost(d, mint, amount) ==
    IF \E i \in 1..Len(d) : d[i].mint = mint
       THEN [i \in 1..Len(d) |->
               IF d[i].mint = mint THEN [d[i] EXCEPT !.post = amount]
               ELSE d[i]]
       ELSE Append(d, [mint |-> mint, pre |-> 0, post |-> amount])

\* main calls _extract_balance_changes(transaction, Address): the index of
\* the address among the account keys is looked up
ExtractBalanceChanges ==
    /\ pc = "idle"
    /\ \E account_keys \in AccountKeyLists :
          address_idx' = AddressIndex(account_keys)
    /\ token_bal_changes' = <<>>
    /\ changes' = <<>>
    /\ pc' = "bc_pre"
    /\ UNCHANGED <<caller, program_id, max_addresses, unique_addresses,
                   before, value, sig_i, req, returned, tr_i, all_addresses,
                   transactions, page_count, rows_left, hist, fresh,
                   requests, examined, signers, n_pre, n_post, emit_i,
                   pre_sol_bals, post_sol_bals, pre_items, post_items,
                   transaction, should_continue, clicks, rows_seen,
                   cutoff_seen, signatures, found_signatures,
                   balance_changes, failure, time_text, now, row,
                   duration_seconds, elapsed, activity_type, failures,
                   errors_logged, controls, next_button, instance, created,
                   initialized, new_lock, kpc, nconstructions, inits, rvars,
                   evars>>

\* one round of `for bal_item in pre_token_bals:`
BC_Pre ==
    /\ pc = "bc_pre"
    /\ n_pre < MaxBalances
    /\ n_pre' = n_pre + 1
    /\ \E bal_item \in TokenBalances :
          IF Belongs(bal_item)
             THEN /\ token_bal_changes' =
                       DictPut(token_bal_changes,
                               [mint |-> bal_item.mint,
                                pre |-> bal_item.amount, post |-> 0])
                  /\ pre_items' = pre_items \cup
                       {<<bal_item.mint, bal_item.amount>>}
             ELSE UNCHANGED <<token_bal_changes, pre_items>>
    /\ UNCHANGED <<pc, caller, program_id, max_addresses, unique_addresses,
                   before, value, sig_i, req, returned, tr_i, all_addresses,
                   transactions, page_count, rows_left, hist, fresh,
                   requests, examined, signers, address_idx, n_post, emit_i,
                   changes, pre_sol_bals, post_sol_bals, post_items,
                   transaction, should_continue, clicks, rows_seen,
                   cutoff_seen, signatures, found_signatures,
                   balance_changes, failure, time_text, now, row,
                   duration_seconds, elapsed, activity_type, failures,
                   errors_logged, controls, next_button, instance, created,
                   initialized, new_lock, kpc, nconstructions, inits, rvars,
                   evars>>

\* the first for loop has gone through pre_token_bals
BC_PreEnd ==
    /\ pc = "bc_pre"
    /\ pc' = "bc_post"
    /\ UNCHANGED <<caller, program_id, max_addresses, unique_addresses,
                   before, value, sig_i, req, returned, tr_i, all_addresses,
                   transactions, page_count, rows_left, hist, fresh,
                   requests, examined, signers, address_idx,
                   token_bal_changes, n_pre, n_post, emit_i, changes,
                   pre_sol_bals, post_sol_bals, pre_items, post_items,
                   transaction, should_continue, clicks, rows_seen,
                   cutoff_seen, signatures, found_signatures,
                   balance_changes, failure, time_text, now, row,
                   duration_seconds, elapsed, activity_type, failures,
                   errors_logged, controls, next_button, instance, created,
                   initialized, new_lock, kpc, nconstructions, inits, rvars,
                   evars>>

\* one round of `for bal_item in post_token_bals:`
BC_Post ==
    /\ pc = "bc_post"
    /\ n_post < MaxBalances
    /\ n_post' = n_post + 1
    /\ \E bal_item \in TokenBalances :
          IF Belongs(bal_item)
             THEN /\ token_bal_changes' =
                       DictPost(token_bal_changes, bal_item.mint,
                                bal_item.amount)
                  /\ post_items' = post_items \cup
                       {<<bal_item.mint, bal_item.amount>>}
             ELSE UNCHANGED <<token_bal_changes, post_items>>
    /\ UNCHANGED <<pc, caller, program_id, max_addresses, unique_addresses,
                   before, value, sig_i, req, returned, tr_i, all_addresses,
                   transactions, page_count, rows_left, hist, fresh,
                   requests, examined, signers, address_idx, n_pre, emit_i,
                   changes, pre_sol_bals, post_sol_bals, pre_items,
                   transaction, should_continue, clicks, rows_seen,
                   cutoff_seen, signatures, found_signatures,
                   balance_changes, failure, time_text, now, row,
                   duration_seconds, elapsed, activity_type, failures,
                   errors_logged, controls, next_button, instance, created,
                   initialized, new_lock, kpc, nconstructions, inits, rvars,
                   evars>>

\* the second for loop has gone through post_token_bals
BC_PostEnd ==
    /\ pc = "bc_post"
    /\ emit_i' = 1
    /\ pc' = "bc_emit"
    /\ UNCHANGED <<caller, program_id, max_addresses, unique_addresses,
                   before, value, sig_i, req, returned, tr_i, all_addresses,
                   transactions, page_count, rows_left, hist, fresh,
                   requests, examined, signers, address_idx,
                   token_bal_changes, n_pre, n_post, changes, pre_sol_bals,
                   post_sol_bals, pre_items, post_items, transaction,
                   should_continue, clicks, rows_seen, cutoff_seen,
                   signatures, found_signatures, balance_changes, failure,
                   time_text, now, row, duration_seconds, elapsed,
                   activity_type, failures, errors_logged, controls,
                   next_button, instance, created, initialized, new_lock,
                   kpc, nconstructions, inits, rvars, evars>>

\* an emission loop without the test of the change
BC_EmitAll ==
    /\ pc = "bc_emit"
    /\ emit_i <= Len(token_bal_changes)
    /\ Invoke(default_max_retries)
    /\ req' = InfoReq(token_bal_changes[emit_i].mint)
    /\ pc' = "bc_name"
    /\ UNCHANGED emit_i
    /\ UNCHANGED <<caller, program_id, max_addresses, unique_addresses,
                   before, value, sig_i, returned, tr_i, all_addresses,
                   transactions, page_count, rows_left, hist, fresh,
                   requests, examined, signers, address_idx,
                   token_bal_changes, n_pre, n_post, changes, pre_sol_bals,
                   post_sol_bals, pre_items, post_items, transaction,
                   should_continue, clicks, rows_seen, cutoff_seen,
                   signatures, found_signatures, balance_changes, failure,
                   time_text, now, row, duration_seconds, elapsed,
                   activity_type, failures, errors_logged, controls,
                   next_button, instance, created, initialized, new_lock,
                   kpc, nconstructions, inits, evars>>

\* one round of `for mint_addr, bals in token_bal_changes.items():` up to
\* the metadata request of _get_token_name, which is made only for a change
\* that is not zero
BC_Emit ==
    /\ pc = "bc_emit"
    /\ emit_i <= Len(token_bal_changes)
    /\ IF token_bal_changes[emit_i].post - token_bal_changes[emit_i].pre # 0
          THEN /\ Invoke(default_max_retries)
               /\ req' = InfoReq(token_bal_changes[emit_i].mint)
               /\ pc' = "bc_name"
               /\ UNCHANGED emit_i
          ELSE /\ emit_i' = emit_i + 1
               /\ UNCHANGED <<pc, req, rvars>>
    /\ UNCHANGED <<caller, program_id, max_addresses, unique_addresses,
                   before, value, sig_i, returned, tr_i, all_addresses,
                   transactions, page_count, rows_left, hist, fresh,
                   requests, examined, signers, address_idx,
                   token_bal_changes, n_pre, n_post, changes, pre_sol_bals,
                   post_sol_bals, pre_items, post_items, transaction,
                   should_continue, clicks, rows_seen, cutoff_seen,
                   signatures, found_signatures, balance_changes, failure,
                   time_text, now, row, duration_seconds, elapsed,
                   activity_type, failures, errors_logged, controls,
                   next_button, instance, created, initialized, new_lock,
                   kpc, nconstructions, inits, evars>>

\* _get_token_name has its answer (a symbol or name decoded from the
\* metadata, else "Unknown Token", also on any exception) and the change is
\* appended
BC_Name ==
    /\ pc = "bc_name"
    /\ rpc_pc = "done"
    /\ \E token_name \in
          (IF response = "value data" THEN {"SYMBOL"} ELSE {}) \cup
          {"Unknown Token"} :
          changes' =
             Append(changes,
                    [token_address |-> token_bal_changes[emit_i].mint,
                     amount |-> token_bal_changes[emit_i].post -
                                token_bal_changes[emit_i].pre,
                     post_balance |-> token_bal_changes[emit_i].post,
                     token_name |-> token_name])
    /\ emit_i' = emit_i + 1
    /\ pc' = "bc_emit"
    /\ UNCHANGED <<caller, program_id, max_addresses, unique_addresses,
                   before, value, sig_i, req, returned, tr_i, all_addresses,
                   transactions, page_count, rows_left, hist, fresh,
                   requests, examined, signers, address_idx,
                   token_bal_changes, n_pre, n_post, pre_sol_bals,
                   post_sol_bals, pre_items, post_items, transaction,
                   should_continue, clicks, rows_seen, cutoff_seen,
                   signatures, found_signatures, balance_changes, failure,
                   time_text, now, row, duration_seconds, elapsed,
                   activity_type, failures, errors_logged, controls,
                   next_button, instance, created, initialized, new_lock,
                   kpc, nconstructions, inits, rvars, evars>>

\* the native balance of the address
SOL == "So11111111111111111111111111111111111111111"

\* after the emission loop: the SOL change of the address, when its index
\* is within pre_balances and post_balances, and the return. The balances
\* of the other accounts are not read: they are 0 here.
BC_Sol ==
    /\ pc = "bc_emit"
    /\ emit_i > Len(token_bal_changes)
    /\ \E pre \in SolBalances, post \in SolBalances :
          /\ \A j \in 1..Len(pre) : j # address_idx + 1 => pre[j] = 0
          /\ \A j \in 1..Len(post) : j # address_idx + 1 => post[j] = 0
          /\ pre_sol_bals' = pre
          /\ post_sol_bals' = post
          /\ changes' =
               IF /\ address_idx >= 0
                  /\ address_idx < Len(pre)
                  /\ address_idx < Len(post)
                  /\ post[address_idx + 1] - pre[address_idx + 1] # 0
                  THEN Append(changes,
                              [token_address |-> SOL,
                               amount |-> post[address_idx + 1] -
                                          pre[address_idx + 1],
                               post_balance |-> post[address_idx + 1],
                               token_name |-> "SOL"])
                  ELSE changes
    /\ returned' = [fn |-> "_extract_balance_changes", changes |-> changes']
    /\ pc' = "done"
    /\ UNCHANGED <<caller, program_id, max_addresses, unique_addresses,
                   before, value, sig_i, req, tr_i, all_addresses,
                   transactions, page_count, rows_left, hist, fresh,
                   requests, examined, signers, address_idx,
                   token_bal_changes, n_pre, n_post, emit_i, pre_items,
                   post_items, transaction, should_continue, clicks,
                   rows_seen, cutoff_seen, signatures, found_signatures,
                   balance_changes, failure, time_text, now, row,
                   duration_seconds, elapsed, activity_type, failures,
                   errors_logged, controls, next_button, instance, created,
                   initialized, new_lock, kpc, nconstructions, inits, rvars,
                   evars>>

(* ------------- _extract_instructions and _parse_transaction ------------- *)

\* a log message, by the three substring tests made on its lower-case text:
\* 'instruction: buy', 'instruction: sell' and 'swap'
Logs == [buy : BOOLEAN, sell : BOOLEAN, swap : BOOLEAN]

LogLists == UNION {[1..n -> Logs] : n \in 0..MaxLogs}

\* balances in lamports: nothing, less than half a micro-SOL, some
\* micro-SOL
Lamports == {0, 400, 5000}

LamportLists == UNION {[1..n -> Lamports] : n \in 0..MaxKeys}

\* f"{instruction_count}+"
CountLabel(instruction_count) == ToString(instruction_count) \o "+"

\* `for log in log_messages_list:` from position i on, with the list built
\* so far and the two flags
RECURSIVE ScanLogs(_, _, _, _, _)
ScanLogs(log_messages_list, i, extracted_instructions, found_buy, found_sell) ==
    IF i > Len(log_messages_list) THEN extracted_instructions
    ELSE LET log == log_messages_list[i] IN
         IF log.buy /\ ~found_buy
            THEN ScanLogs(log_messages_list, i + 1,
                          Append(extracted_instructions, "buy"), TRUE,
                          found_sell)
         ELSE IF log.sell /\ ~found_sell
            THEN ScanLogs(log_messages_list, i + 1,
                          Append(extracted_instructions, "sell"), found_buy,
                          TRUE)
         ELSE IF log.swap /\ "swap" \notin Range(extracted_instructions)
            THEN ScanLogs(log_messages_list, i + 1,
                          Append(extracted_instructions, "swap"), found_buy,
                          found_sell)
         ELSE ScanLogs(log_messages_list, i + 1, extracted_instructions,
                       found_buy, found_sell)

\* _extract_instructions(transaction)
extract_instructions(tx) ==
    LET extracted_instructions ==
           ScanLogs(tx.log_messages, 1, <<>>, FALSE, FALSE)
        counted ==
           IF extracted_instructions = <<>> /\ tx.instructions > 1
              THEN <<CountLabel(tx.instructions)>>
              ELSE extracted_instructions
    IN  IF counted # <<>> THEN counted ELSE <<"Unknown">>

\* main calls _extract_instructions on a transaction
ExtractInstructions ==
    /\ pc = "idle"
    /\ \E log_messages_list \in LogLists, n \in 0..MaxInstructions :
          /\ transaction' = [NoTx EXCEPT !.log_messages = log_messages_list,
                                         !.instructions = n]
          /\ returned' = [fn |-> "_extract_instructions",
                          instructions |-> extract_instructions(transaction')]
    /\ pc' = "done"
    /\ UNCHANGED <<caller, program_id, max_addresses, unique_addresses,
                   before, value, sig_i, req, tr_i, all_addresses,
                   transactions, page_count, rows_left, hist, fresh,
                   requests, examined, signers, address_idx,
                   token_bal_changes, n_pre, n_post, emit_i, changes,
                   pre_sol_bals, post_sol_bals, pre_items, post_items,
                   should_continue, clicks, rows_seen, cutoff_seen,
                   signatures, found_signatures, balance_changes, failure,
                   time_text, now, row, duration_seconds, elapsed,
                   activity_type, failures, errors_logged, controls,
                   next_button, instance, created, initialized, new_lock,
                   kpc, nconstructions, inits, rvars, evars>>

Abs(x) == IF x < 0 THEN 0 - x ELSE x

\* the loop of _extract_transaction_value from index i on: the largest
\* absolute change, in lamports
RECURSIVE MaxChange(_, _, _, _)
MaxChange(pre_sols, post_sols, i, max_change) ==
    IF i > Min(Len(pre_sols), Len(post_sols)) THEN max_change
    ELSE LET change == Abs(post_sols[i] - pre_sols[i]) IN
         MaxChange(pre_sols, post_sols, i + 1,
                   IF change > max_change THEN change ELSE max_change)

\* _extract_transaction_value(transaction), in lamports (the code divides
\* each change by 1e9)
extract_transaction_value(tx) ==
    IF tx.pre_balances # <<>> /\ tx.post_balances # <<>>
       THEN MaxChange(tx.pre_balances, tx.post_balances, 1, 0)
       ELSE 0

\* the text f"{lamports / 1e9:.6f}": the amount rounded to micro-SOL, with
\* 6 digits after the point
Fixed6(lamports) ==
    LET micros == (lamports + 500) \div 1000 IN
    [whole |-> micros \div 1000000, frac |-> micros % 1000000, places |-> 6]

\* the text "0"
Plain0 == [whole |-> 0, frac |-> 0, places |-> 0]

\* the dict _parse_transaction returns (instructions, value, fee and page;
\* signature, block, time and by are copied from sig_info and the account
\* keys)
parse_transaction(tx) ==
    [instructions |-> extract_instructions(tx),
     value |-> IF extract_transaction_value(tx) # 0
                  THEN Fixed6(extract_transaction_value(tx))
                  ELSE Plain0,
     fee |-> Fixed6(tx.fee),
     page |-> 1]

\* main calls _parse_transaction on a transaction
ParseTransaction ==
    /\ pc = "idle"
    /\ \E log_messages_list \in LogLists, n \in 0..MaxInstructions,
          fee \in Lamports, pre \in LamportLists, post \in LamportLists :
          /\ transaction' =
               [log_messages |-> log_messages_list, instructions |-> n,
                fee |-> fee, pre_balances |-> pre, post_balances |-> post]
          /\ returned' = [fn |-> "_parse_transaction",
                          tx_data |-> parse_transaction(transaction')]
    /\ pc' = "done"
    /\ UNCHANGED <<caller, program_id, max_addresses, unique_addresses,
                   before, value, sig_i, req, tr_i, all_addresses,
                   transactions, page_count, rows_left, hist, fresh,
                   requests, examined, signers, address_idx,
                   token_bal_changes, n_pre, n_post, emit_i, changes,
                   pre_sol_bals, post_sol_bals, pre_items, post_items,
                   should_continue, clicks, rows_seen, cutoff_seen,
                   signatures, found_signatures, balance_changes, failure,
                   time_text, now, row, duration_seconds, elapsed,
                   activity_type, failures, errors_logged, controls,
                   next_button, instance, created, initialized, new_lock,
                   kpc, nconstructions, inits, rvars, evars>>

(* ------------------ extract_address_transactions_task ------------------- *)

\* the program ID the transaction rows are tested for
AxiomLink == "AxiomfHaWDemCFBLBayqnEnNwE6b7B2Qz3UmzMpgbMG6"

\* a row of the transaction table that can be read: whether the time
\* parse_time_text gives for it is before the cutoff, the links of its
\* programs column, and whether its markup holds a failure indicator
\* (check_transaction_failed)
TransactionRows ==
    [kind : {"row"}, old : BOOLEAN, links : SUBSET ProgramLinks,
     failed : BOOLEAN]

\* a row with fewer than 9 cells, or one whose processing raises
BadRow == [kind |-> "error", old |-> FALSE, links |-> {}, failed |-> FALSE]

\* extract_address_transactions_task(driver, Address, days) starts: the
\* page loads, or driver.get / the wait for the body raises
EnterAddressTransactionsTask ==
    /\ transactions' = <<>>
    /\ page_count' = 0
    /\ clicks' = 0
    /\ rows_seen' = <<>>
    /\ cutoff_seen' = FALSE
    /\ \/ /\ pc' = "xt_while"
          /\ UNCHANGED returned
       \/ /\ pc' = IF caller = "main" THEN "done" ELSE "sa_got1"
          /\ returned' = [fn |-> "extract_address_transactions_task",
                          raised |-> TRUE]

\* the worker calls extract_address_transactions_task(driver, Address, days)
ExtractAddressTransactionsTask ==
    /\ pc = "idle"
    /\ EnterAddressTransactionsTask
    /\ UNCHANGED <<caller, program_id, max_addresses, unique_addresses,
                   before, value, sig_i, req, tr_i, all_addresses, rows_left,
                   hist, fresh, requests, examined, signers, address_idx,
                   token_bal_changes, n_pre, n_post, emit_i, changes,
                   pre_sol_bals, post_sol_bals, pre_items, post_items,
                   transaction, should_continue, signatures,
                   found_signatures, balance_changes, failure, time_text,
                   now, row, duration_seconds, elapsed, activity_type,
                   failures, errors_logged, controls, next_button, instance,
                   created, initialized, new_lock, kpc, nconstructions,
                   inits, rvars, evars>>

\* `while page_count < max_pages:` and the wait for the table
XT_While ==
    /\ pc = "xt_while"
    /\ IF page_count < max_pages_transactions
          THEN /\ page_count' = page_count + 1
               /\ \E t \in {"table", "TimeoutException", "Exception"} :
                     IF t = "table"
                        THEN /\ \E r \in 0..MaxRows : rows_left' = r
                             /\ should_continue' = FALSE
                             /\ pc' = "xt_row"
                        ELSE /\ pc' = "xt_return"
                             /\ UNCHANGED <<rows_left, should_continue>>
          ELSE /\ pc' = "xt_return"
               /\ UNCHANGED <<page_count, rows_left, should_continue>>
    /\ UNCHANGED <<caller, program_id, max_addresses, unique_addresses,
                   before, value, sig_i, req, returned, tr_i, all_addresses,
                   transactions, hist, fresh, requests, examined, signers,
                   address_idx, token_bal_changes, n_pre, n_post, emit_i,
                   changes, pre_sol_bals, post_sol_bals, pre_items,
                   post_items, transaction, clicks, rows_seen, cutoff_seen,
                   signatures, found_signatures, balance_changes, failure,
                   time_text, now, row, duration_seconds, elapsed,
                   activity_type, failures, errors_logged, controls,
                   next_button, instance, created, initialized, new_lock,
                   kpc, nconstructions, inits, rvars, evars>>

\* one row of the table: a row that cannot be processed is skipped; a row
\* older than the cutoff ends the for loop; any other row is appended when
\* its programs column links to AxiomLink and it is not failed (its
\* signature is its position among the rows gone through)
XT_Row ==
    /\ pc = "xt_row"
    /\ rows_left > 0
    /\ \E r \in TransactionRows \cup {BadRow} :
          /\ rows_seen' = Append(rows_seen, r)
          /\ IF r.kind = "error"
                THEN /\ rows_left' = rows_left - 1
                     /\ UNCHANGED <<should_continue, transactions, cutoff_seen>>
             ELSE IF r.old
                THEN /\ should_continue' = FALSE
                     /\ cutoff_seen' = TRUE
                     /\ rows_left' = 0
                     /\ UNCHANGED transactions
             ELSE /\ transactions' =
                        IF AxiomLink \in r.links /\ ~r.failed
                           THEN Append(transactions,
                                       [signature |-> Len(rows_seen) + 1,
                                        page |-> page_count])
                           ELSE transactions
                  /\ should_continue' = TRUE
                  /\ rows_left' = rows_left - 1
                  /\ UNCHANGED cutoff_seen
    /\ UNCHANGED pc
    /\ UNCHANGED <<caller, program_id, max_addresses, unique_addresses,
                   before, value, sig_i, req, returned, tr_i, all_addresses,
                   page_count, hist, fresh, requests, examined, signers,
                   address_idx, token_bal_changes, n_pre, n_post, emit_i,
                   changes, pre_sol_bals, post_sol_bals, pre_items,
                   post_items, transaction, clicks, signatures,
                   found_signatures, balance_changes, failure, time_text,
                   now, row, duration_seconds, elapsed, activity_type,
                   failures, errors_logged, controls, next_button, instance,
                   created, initialized, new_lock, kpc, nconstructions,
                   inits, rvars, evars>>

\* the selectors tried in order for the next-page button
next_button_selectors ==
    <<"button:has(svg.lucide-chevron-right)",
      "button[class*='chevron-right']",
      "button svg.lucide-chevron-right",
      "button:contains('Next')",
      "button[aria-label*='Next']",
      "button[title*='Next']">>

\* what a selector resolves to on a page: nothing (the lookup raises or
\* gives null), a control that is disabled (is_enabled() false or the
\* attribute disabled set) or a control that is enabled
Resolutions == {"none", "disabled", "enabled"}

\* the pages: what each selector resolves to
ControlPages == [1..Len(next_button_selectors) -> Resolutions]

\* `for selector in next_button_selectors:` from position i on: the loop is
\* left with the first control found
RECURSIVE FindNextButton(_, _)
FindNextButton(page, i) ==
    IF i > Len(next_button_selectors) THEN "none"
    ELSE IF page[i] # "none" THEN page[i]
    ELSE FindNextButton(page, i + 1)

\* whether the pagination step clicks: the control found is enabled and
\* is_enabled, get_attribute and the click do not raise
PaginationClicks(page, error) ==
    ~error /\ FindNextButton(page, 1) = "enabled"

\* the pagination step of the two scraping loops on its own: the lookup of
\* the button and the click
NextPageStep ==
    /\ pc = "idle"
    /\ \E page \in ControlPages, error \in BOOLEAN :
          /\ controls' = page
          /\ next_button' = FindNextButton(page, 1)
          /\ clicks' = IF PaginationClicks(page, error) THEN 1 ELSE 0
          /\ returned' = [fn |-> "next_page", error |-> error,
                          clicked |-> PaginationClicks(page, error)]
    /\ pc' = "done"
    /\ UNCHANGED <<caller, program_id, max_addresses, unique_addresses,
                   before, value, sig_i, req, tr_i, all_addresses,
                   transactions, page_count, rows_left, hist, fresh,
                   requests, examined, signers, address_idx,
                   token_bal_changes, n_pre, n_post, emit_i, changes,
                   pre_sol_bals, post_sol_bals, pre_items, post_items,
                   transaction, should_continue, rows_seen, cutoff_seen,
                   signatures, found_signatures, balance_changes, failure,
                   time_text, now, row, duration_seconds, elapsed,
                   activity_type, failures, errors_logged, instance, created,
                   initialized, new_lock, kpc, nconstructions, inits, rvars,
                   evars>>

\* after the rows: `if not should_continue and transactions: break`, else
\* the next-page button is looked up and clicked if it is enabled; a
\* disabled or missing button or an error ends the loop
XT_Next ==
    /\ pc = "xt_row"
    /\ rows_left = 0
    /\ IF ~should_continue /\ transactions # <<>>
          THEN /\ pc' = "xt_return"
               /\ UNCHANGED clicks
          ELSE \E page \in ControlPages, error \in BOOLEAN :
                  /\ pc' = IF PaginationClicks(page, error) THEN "xt_while"
                                                            ELSE "xt_return"
                  /\ clicks' = IF PaginationClicks(page, error)
                                   THEN clicks + 1
                                   ELSE clicks
    /\ UNCHANGED <<caller, program_id, max_addresses, unique_addresses,
                   before, value, sig_i, req, returned, tr_i, all_addresses,
                   transactions, page_count, rows_left, hist, fresh,
                   requests, examined, signers, address_idx,
                   token_bal_changes, n_pre, n_post, emit_i, changes,
                   pre_sol_bals, post_sol_bals, pre_items, post_items,
                   transaction, should_continue, rows_seen, cutoff_seen,
                   signatures, found_signatures, balance_changes, failure,
                   time_text, now, row, duration_seconds, elapsed,
                   activity_type, failures, errors_logged, controls,
                   next_button, instance, created, initialized, new_lock,
                   kpc, nconstructions, inits, rvars, evars>>

\* the result dict of extract_address_transactions_task
XT_Return ==
    /\ pc = "xt_return"
    /\ returned' = [fn |-> "extract_address_transactions_task",
                    raised |-> FALSE,
                    transactions |-> transactions,
                    total_found |-> Len(transactions),
                    pages_processed |-> page_count]
    /\ pc' = IF caller = "main" THEN "done" ELSE "sa_got1"
    /\ UNCHANGED <<caller, program_id, max_addresses, unique_addresses,
                   before, value, sig_i, req, tr_i, all_addresses,
                   transactions, page_count, rows_left, hist, fresh,
                   requests, examined, signers, address_idx,
                   token_bal_changes, n_pre, n_post, emit_i, changes,
                   pre_sol_bals, post_sol_bals, pre_items, post_items,
                   transaction, should_continue, clicks, rows_seen,
                   cutoff_seen, signatures, found_signatures,
                   balance_changes, failure, time_text, now, row,
                   duration_seconds, elapsed, activity_type, failures,
                   errors_logged, controls, next_button, instance, created,
                   initialized, new_lock, kpc, nconstructions, inits, rvars,
                   evars>>

(* -------------------- extract_balance_changes_task ---------------------- *)

\* the signature lists a caller passes: signatures of accepted rows, in
\* table order
SignatureLists ==
    {s \in UNION {[1..n -> 1..MaxRows] : n \in 0..MaxRows} :
        \A j, k \in 1..Len(s) : j < k => s[j] < s[k]}

\* a row of the balance-change table that can be read: its signature (0 for
\* one that is none of the known ones) and whether a token name is found
\* str.strip()
RECURSIVE Strip(_)
Strip(s) ==
    IF s = <<>> THEN s
    ELSE IF Head(s) = " " THEN Strip(Tail(s))
    ELSE IF s[Len(s)] = " " THEN Strip(SubSeq(s, 1, Len(s) - 1))
    ELSE s

\* the token cell of a row: whether it has the link a.text-current, and the
\* text of the link
TokenCells ==
    {[link |-> FALSE, text |-> <<>>],
     [link |-> TRUE, text |-> <<" ">>],
     [link |-> TRUE, text |-> <<"U", "S", "D", "C">>]}

\* token_name: the stripped text of the link, "" when looking it up raises
TokenName(cell) == IF cell.link THEN Strip(cell.text) ELSE <<>>

BalanceRows == [kind : {"row"}, signature : 0..MaxRows, token : TokenCells]

\* a row whose processing raises
BadBalanceRow ==
    [kind |-> "error", signature |-> 0,
     token |-> [link |-> FALSE, text |-> <<>>]]

\* extract_balance_changes_task(driver, Address, sigs) starts: the page
\* loads, or driver.get / the wait for the body raises
EnterBalanceChangesTask(sigs) ==
    /\ signatures' = sigs
    /\ found_signatures' = {}
    /\ balance_changes' = [s \in 1..MaxRows |-> <<>>]
    /\ page_count' = 0
    /\ clicks' = 0
    /\ \/ /\ pc' = "xb_while"
          /\ UNCHANGED returned
       \/ /\ pc' = IF caller = "main" THEN "done" ELSE "sa_got2"
          /\ returned' = [fn |-> "extract_balance_changes_task",
                          raised |-> TRUE]

\* the worker calls extract_balance_changes_task(driver, Address, sigs)
ExtractBalanceChangesTask(sigs) ==
    /\ pc = "idle"
    /\ EnterBalanceChangesTask(sigs)
    /\ UNCHANGED <<caller, program_id, max_addresses, unique_addresses,
                   before, value, sig_i, req, tr_i, all_addresses,
                   transactions, rows_left, hist, fresh, requests, examined,
                   signers, address_idx, token_bal_changes, n_pre, n_post,
                   emit_i, changes, pre_sol_bals, post_sol_bals, pre_items,
                   post_items, transaction, should_continue, rows_seen,
                   cutoff_seen, failure, time_text, now, row,
                   duration_seconds, elapsed, activity_type, failures,
                   errors_logged, controls, next_button, instance, created,
                   initialized, new_lock, kpc, nconstructions, inits, rvars,
                   evars>>

\* a loop without the page limit
XB_WhileNoLimit ==
    /\ pc = "xb_while"
    /\ IF Cardinality(found_signatures) < Len(signatures)
          THEN /\ page_count' = page_count + 1
               /\ \E t \in {"table", "TimeoutException", "Exception"} :
                     IF t = "table"
                        THEN /\ \E r \in 0..MaxRows : rows_left' = r
                             /\ pc' = "xb_row"
                        ELSE /\ pc' = "xb_return"
                             /\ UNCHANGED rows_left
          ELSE /\ pc' = "xb_return"
               /\ UNCHANGED <<page_count, rows_left>>
    /\ UNCHANGED <<caller, program_id, max_addresses, unique_addresses,
                   before, value, sig_i, req, returned, tr_i, all_addresses,
                   transactions, hist, fresh, requests, examined, signers,
                   address_idx, token_bal_changes, n_pre, n_post, emit_i,
                   changes, pre_sol_bals, post_sol_bals, pre_items,
                   post_items, transaction, should_continue, clicks,
                   rows_seen, cutoff_seen, signatures, found_signatures,
                   balance_changes, failure, time_text, now, row,
                   duration_seconds, elapsed, activity_type, failures,
                   errors_logged, controls, next_button, instance, created,
                   initialized, new_lock, kpc, nconstructions, inits, rvars,
                   evars>>

\* `while page_count < max_pages and len(found_signatures) <
\* len(signatures):` and the wait for the table
XB_While ==
    /\ pc = "xb_while"
    /\ IF page_count < max_pages_balance /\
          Cardinality(found_signatures) < Len(signatures)
          THEN /\ page_count' = page_count + 1
               /\ \E t \in {"table", "TimeoutException", "Exception"} :
                     IF t = "table"
                        THEN /\ \E r \in 0..MaxRows : rows_left' = r
                             /\ pc' = "xb_row"
                        ELSE /\ pc' = "xb_return"
                             /\ UNCHANGED rows_left
          ELSE /\ pc' = "xb_return"
               /\ UNCHANGED <<page_count, rows_left>>
    /\ UNCHANGED <<caller, program_id, max_addresses, unique_addresses,
                   before, value, sig_i, req, returned, tr_i, all_addresses,
                   transactions, hist, fresh, requests, examined, signers,
                   address_idx, token_bal_changes, n_pre, n_post, emit_i,
                   changes, pre_sol_bals, post_sol_bals, pre_items,
                   post_items, transaction, should_continue, clicks,
                   rows_seen, cutoff_seen, signatures, found_signatures,
                   balance_changes, failure, time_text, now, row,
                   duration_seconds, elapsed, activity_type, failures,
                   errors_logged, controls, next_button, instance, created,
                   initialized, new_lock, kpc, nconstructions, inits, rvars,
                   evars>>

\* a row loop that does not look at the token name
XB_RowAnyToken ==
    /\ pc = "xb_row"
    /\ rows_left > 0
    /\ rows_left' = rows_left - 1
    /\ \E r \in BalanceRows \cup {BadBalanceRow} :
          IF /\ r.kind = "row"
             /\ r.signature \in Range(signatures)
             THEN /\ Len(balance_changes[r.signature]) < MaxRecords
                  /\ balance_changes' =
                        [balance_changes EXCEPT
                           ![r.signature] = Append(@, TokenName(r.token))]
                  /\ found_signatures' =
                        found_signatures \cup {r.signature}
             ELSE UNCHANGED <<balance_changes, found_signatures>>
    /\ UNCHANGED pc
    /\ UNCHANGED <<caller, program_id, max_addresses, unique_addresses,
                   before, value, sig_i, req, returned, tr_i, all_addresses,
                   transactions, page_count, hist, fresh, requests, examined,
                   signers, address_idx, token_bal_changes, n_pre, n_post,
                   emit_i, changes, pre_sol_bals, post_sol_bals, pre_items,
                   post_items, transaction, should_continue, clicks,
                   rows_seen, cutoff_seen, signatures, failure, time_text,
                   now, row, duration_seconds, elapsed, activity_type,
                   failures, errors_logged, controls, next_button, instance,
                   created, initialized, new_lock, kpc, nconstructions,
                   inits, rvars, evars>>

\* one row of the table: a row that cannot be processed, one with another
\* signature and one without token name are skipped; any other row adds a
\* record, here its token name, under its signature
XB_Row ==
    /\ pc = "xb_row"
    /\ rows_left > 0
    /\ rows_left' = rows_left - 1
    /\ \E r \in BalanceRows \cup {BadBalanceRow} :
          IF /\ r.kind = "row"
             /\ r.signature \in Range(signatures)
             /\ TokenName(r.token) # <<>>
             THEN /\ Len(balance_changes[r.signature]) < MaxRecords
                  /\ balance_changes' =
                        [balance_changes EXCEPT
                           ![r.signature] = Append(@, TokenName(r.token))]
                  /\ found_signatures' =
                        found_signatures \cup {r.signature}
             ELSE UNCHANGED <<balance_changes, found_signatures>>
    /\ UNCHANGED pc
    /\ UNCHANGED <<caller, program_id, max_addresses, unique_addresses,
                   before, value, sig_i, req, returned, tr_i, all_addresses,
                   transactions, page_count, hist, fresh, requests, examined,
                   signers, address_idx, token_bal_changes, n_pre, n_post,
                   emit_i, changes, pre_sol_bals, post_sol_bals, pre_items,
                   post_items, transaction, should_continue, clicks,
                   rows_seen, cutoff_seen, signatures, failure, time_text,
                   now, row, duration_seconds, elapsed, activity_type,
                   failures, errors_logged, controls, next_button, instance,
                   created, initialized, new_lock, kpc, nconstructions,
                   inits, rvars, evars>>

\* after the rows: the next-page button is looked up and clicked if it is
\* enabled; a disabled or missing button or an error ends the loop
XB_Next ==
    /\ pc = "xb_row"
    /\ rows_left = 0
    /\ \E page \in ControlPages, error \in BOOLEAN :
          /\ pc' = IF PaginationClicks(page, error) THEN "xb_while"
                                                    ELSE "xb_return"
          /\ clicks' = IF PaginationClicks(page, error) THEN clicks + 1
                                                        ELSE clicks
    /\ UNCHANGED <<caller, program_id, max_addresses, unique_addresses,
                   before, value, sig_i, req, returned, tr_i, all_addresses,
                   transactions, page_count, rows_left, hist, fresh,
                   requests, examined, signers, address_idx,
                   token_bal_changes, n_pre, n_post, emit_i, changes,
                   pre_sol_bals, post_sol_bals, pre_items, post_items,
                   transaction, should_continue, rows_seen, cutoff_seen,
                   signatures, found_signatures, balance_changes, failure,
                   time_text, now, row, duration_seconds, elapsed,
                   activity_type, failures, errors_logged, controls,
                   next_button, instance, created, initialized, new_lock,
                   kpc, nconstructions, inits, rvars, evars>>

\* the result dict of extract_balance_changes_task
XB_Return ==
    /\ pc = "xb_return"
    /\ returned' = [fn |-> "extract_balance_changes_task",
                    raised |-> FALSE,
                    balance_changes |-> balance_changes,
                    signatures_found |-> Cardinality(found_signatures),
                    signatures_total |-> Len(signatures),
                    pages_processed |-> page_count]
    /\ pc' = IF caller = "main" THEN "done" ELSE "sa_got2"
    /\ UNCHANGED <<caller, program_id, max_addresses, unique_addresses,
                   before, value, sig_i, req, tr_i, all_addresses,
                   transactions, page_count, rows_left, hist, fresh,
                   requests, examined, signers, address_idx,
                   token_bal_changes, n_pre, n_post, emit_i, changes,
                   pre_sol_bals, post_sol_bals, pre_items, post_items,
                   transaction, should_continue, clicks, rows_seen,
                   cutoff_seen, signatures, found_signatures,
                   balance_changes, failure, time_text, now, row,
                   duration_seconds, elapsed, activity_type, failures,
                   errors_logged, controls, next_button, instance, created,
                   initialized, new_lock, kpc, nconstructions, inits, rvars,
                   evars>>

(* ------------- scrape_solscan_account, scrape_address_transactions ------ *)

\* how manager.execute_task can end without the result of the task: the
\* session setup fails for the unit, or the wait times out
ExecuteTaskFailures == {"Failed to setup driver", "TimeoutError"}

\* main calls scrape_solscan_account(p, n): the manager is started
ScrapeSolscanAccount(p, n) ==
    /\ pc = "idle"
    /\ caller' = "scrape_solscan_account"
    /\ program_id' = p
    /\ max_addresses' = n
    /\ pc' = "ss_task"
    /\ UNCHANGED <<unique_addresses, before, value, sig_i, req, returned,
                   tr_i, all_addresses, transactions, page_count, rows_left,
                   hist, fresh, requests, examined, signers, address_idx,
                   token_bal_changes, n_pre, n_post, emit_i, changes,
                   pre_sol_bals, post_sol_bals, pre_items, post_items,
                   transaction, should_continue, clicks, rows_seen,
                   cutoff_seen, signatures, found_signatures,
                   balance_changes, failure, time_text, now, row,
                   duration_seconds, elapsed, activity_type, failures,
                   errors_logged, controls, next_button, instance, created,
                   initialized, new_lock, kpc, nconstructions, inits, rvars,
                   evars>>

\* manager.execute_task(extract_table_data_task, program_id, max_addresses):
\* it fails, or the task raises before its loop, or the task runs
SS_Task ==
    /\ pc = "ss_task"
    /\ \/ /\ \E e \in ExecuteTaskFailures \cup {"task exception"} :
               failure' = e
          /\ pc' = "ss_except"
          /\ UNCHANGED <<program_id, max_addresses, unique_addresses,
                         page_count, clicks>>
       \/ /\ EnterTable(program_id, max_addresses)
          /\ UNCHANGED failure
    /\ UNCHANGED <<caller, before, value, sig_i, req, returned, tr_i,
                   all_addresses, transactions, rows_left, hist, fresh,
                   requests, examined, signers, address_idx,
                   token_bal_changes, n_pre, n_post, emit_i, changes,
                   pre_sol_bals, post_sol_bals, pre_items, post_items,
                   transaction, should_continue, rows_seen, cutoff_seen,
                   signatures, found_signatures, balance_changes, time_text,
                   now, row, duration_seconds, elapsed, activity_type,
                   failures, errors_logged, controls, next_button, instance,
                   created, initialized, new_lock, kpc, nconstructions,
                   inits, rvars, evars>>

\* the task has returned its result: the file is written (which can fail)
\* and the result is returned
SS_Got ==
    /\ pc = "ss_got"
    /\ \/ /\ failure' = "file"
          /\ pc' = "ss_except"
          /\ UNCHANGED returned
       \/ /\ returned' = [fn |-> "scrape_solscan_account",
                          outcome |-> "result",
                          unique_addresses |-> returned.unique_addresses,
                          total_found |-> returned.total_found]
          /\ pc' = "done"
          /\ UNCHANGED failure
    /\ UNCHANGED <<caller, program_id, max_addresses, unique_addresses,
                   before, value, sig_i, req, tr_i, all_addresses,
                   transactions, page_count, rows_left, hist, fresh,
                   requests, examined, signers, address_idx,
                   token_bal_changes, n_pre, n_post, emit_i, changes,
                   pre_sol_bals, post_sol_bals, pre_items, post_items,
                   transaction, should_continue, clicks, rows_seen,
                   cutoff_seen, signatures, found_signatures,
                   balance_changes, time_text, now, row, duration_seconds,
                   elapsed, activity_type, failures, errors_logged, controls,
                   next_button, instance, created, initialized, new_lock,
                   kpc, nconstructions, inits, rvars, evars>>

\* `except Exception as e:` return None
SS_Except ==
    /\ pc = "ss_except"
    /\ returned' = [fn |-> "scrape_solscan_account", outcome |-> "None"]
    /\ pc' = "done"
    /\ UNCHANGED <<caller, program_id, max_addresses, unique_addresses,
                   before, value, sig_i, req, tr_i, all_addresses,
                   transactions, page_count, rows_left, hist, fresh,
                   requests, examined, signers, address_idx,
                   token_bal_changes, n_pre, n_post, emit_i, changes,
                   pre_sol_bals, post_sol_bals, pre_items, post_items,
                   transaction, should_continue, clicks, rows_seen,
                   cutoff_seen, signatures, found_signatures,
                   balance_changes, failure, time_text, now, row,
                   duration_seconds, elapsed, activity_type, failures,
                   errors_logged, controls, next_button, instance, created,
                   initialized, new_lock, kpc, nconstructions, inits, rvars,
                   evars>>

\* main calls scrape_address_transactions(Address, days): the manager is
\* started
ScrapeAddressTransactions ==
    /\ pc = "idle"
    /\ caller' = "scrape_address_transactions"
    /\ pc' = "sa_task1"
    /\ UNCHANGED <<program_id, max_addresses, unique_addresses, before,
                   value, sig_i, req, returned, tr_i, all_addresses,
                   transactions, page_count, rows_left, hist, fresh,
                   requests, examined, signers, address_idx,
                   token_bal_changes, n_pre, n_post, emit_i, changes,
                   pre_sol_bals, post_sol_bals, pre_items, post_items,
                   transaction, should_continue, clicks, rows_seen,
                   cutoff_seen, signatures, found_signatures,
                   balance_changes, failure, time_text, now, row,
                   duration_seconds, elapsed, activity_type, failures,
                   errors_logged, controls, next_button, instance, created,
                   initialized, new_lock, kpc, nconstructions, inits, rvars,
                   evars>>

\* manager.execute_task(extract_address_transactions_task, ...): it fails,
\* or the task runs
SA_Task1 ==
    /\ pc = "sa_task1"
    /\ \/ /\ \E e \in ExecuteTaskFailures : failure' = e
          /\ pc' = "sa_except"
          /\ UNCHANGED <<transactions, page_count, clicks, rows_seen,
                         cutoff_seen, returned>>
       \/ /\ EnterAddressTransactionsTask
          /\ UNCHANGED failure
    /\ UNCHANGED <<caller, program_id, max_addresses, unique_addresses,
                   before, value, sig_i, req, tr_i, all_addresses, rows_left,
                   hist, fresh, requests, examined, signers, address_idx,
                   token_bal_changes, n_pre, n_post, emit_i, changes,
                   pre_sol_bals, post_sol_bals, pre_items, post_items,
                   transaction, should_continue, signatures,
                   found_signatures, balance_changes, time_text, now, row,
                   duration_seconds, elapsed, activity_type, failures,
                   errors_logged, controls, next_button, instance, created,
                   initialized, new_lock, kpc, nconstructions, inits, rvars,
                   evars>>

\* the first task has ended: its exception is raised here; without
\* transactions None is returned; else the second task is due (the row
\* history of the first task is dropped)
SA_Got1 ==
    /\ pc = "sa_got1"
    /\ IF returned.raised
          THEN /\ failure' = "task exception"
               /\ pc' = "sa_except"
               /\ UNCHANGED returned
          ELSE IF returned.transactions = <<>>
                  THEN /\ returned' = [fn |-> "scrape_address_transactions",
                                       outcome |-> "None"]
                       /\ pc' = "done"
                       /\ UNCHANGED failure
                  ELSE /\ pc' = "sa_task2"
                       /\ UNCHANGED <<returned, failure>>
    /\ rows_seen' = <<>>
    /\ cutoff_seen' = FALSE
    /\ UNCHANGED <<caller, program_id, max_addresses, unique_addresses,
                   before, value, sig_i, req, tr_i, all_addresses,
                   transactions, page_count, rows_left, hist, fresh,
                   requests, examined, signers, address_idx,
                   token_bal_changes, n_pre, n_post, emit_i, changes,
                   pre_sol_bals, post_sol_bals, pre_items, post_items,
                   transaction, should_continue, clicks, signatures,
                   found_signatures, balance_changes, time_text, now, row,
                   duration_seconds, elapsed, activity_type, failures,
                   errors_logged, controls, next_button, instance, created,
                   initialized, new_lock, kpc, nconstructions, inits, rvars,
                   evars>>

\* manager.execute_task(extract_balance_changes_task, address_id,
\* signatures) with the signatures of the transactions: the wait times out,
\* or the task runs
SA_Task2 ==
    /\ pc = "sa_task2"
    /\ \/ /\ failure' = "TimeoutError"
          /\ pc' = "sa_except"
          /\ UNCHANGED <<signatures, found_signatures, balance_changes,
                         page_count, clicks, returned>>
       \/ /\ EnterBalanceChangesTask(
                [k \in 1..Len(transactions) |-> transactions[k].signature])
          /\ UNCHANGED failure
    /\ UNCHANGED <<caller, program_id, max_addresses, unique_addresses,
                   before, value, sig_i, req, tr_i, all_addresses,
                   transactions, rows_left, hist, fresh, requests, examined,
                   signers, address_idx, token_bal_changes, n_pre, n_post,
                   emit_i, changes, pre_sol_bals, post_sol_bals, pre_items,
                   post_items, transaction, should_continue, rows_seen,
                   cutoff_seen, time_text, now, row, duration_seconds,
                   elapsed, activity_type, failures, errors_logged, controls,
                   next_button, instance, created, initialized, new_lock,
                   kpc, nconstructions, inits, rvars, evars>>

\* the second task has ended: its exception is raised here; else the
\* results are combined, the file is written (which can fail) and the
\* combined result is returned
SA_Got2 ==
    /\ pc = "sa_got2"
    /\ IF returned.raised
          THEN /\ failure' = "task exception"
               /\ pc' = "sa_except"
               /\ UNCHANGED returned
          ELSE \/ /\ failure' = "file"
                  /\ pc' = "sa_except"
                  /\ UNCHANGED returned
               \/ /\ returned' =
                       [fn |-> "scrape_address_transactions",
                        outcome |-> "result",
                        transactions |-> transactions,
                        balance_changes |-> returned.balance_changes,
                        total_transactions |-> Len(transactions),
                        balance_changes_found |-> returned.signatures_found]
                  /\ pc' = "done"
                  /\ UNCHANGED failure
    /\ UNCHANGED <<caller, program_id, max_addresses, unique_addresses,
                   before, value, sig_i, req, tr_i, all_addresses,
                   transactions, page_count, rows_left, hist, fresh,
                   requests, examined, signers, address_idx,
                   token_bal_changes, n_pre, n_post, emit_i, changes,
                   pre_sol_bals, post_sol_bals, pre_items, post_items,
                   transaction, should_continue, clicks, rows_seen,
                   cutoff_seen, signatures, found_signatures,
                   balance_changes, time_text, now, row, duration_seconds,
                   elapsed, activity_type, failures, errors_logged, controls,
                   next_button, instance, created, initialized, new_lock,
                   kpc, nconstructions, inits, rvars, evars>>

\* `except Exception as e:` return None
SA_Except ==
    /\ pc = "sa_except"
    /\ returned' = [fn |-> "scrape_address_transactions", outcome |-> "None"]
    /\ pc' = "done"
    /\ UNCHANGED <<caller, program_id, max_addresses, unique_addresses,
                   before, value, sig_i, req, tr_i, all_addresses,
                   transactions, page_count, rows_left, hist, fresh,
                   requests, examined, signers, address_idx,
                   token_bal_changes, n_pre, n_post, emit_i, changes,
                   pre_sol_bals, post_sol_bals, pre_items, post_items,
                   transaction, should_continue, clicks, rows_seen,
                   cutoff_seen, signatures, found_signatures,
                   balance_changes, failure, time_text, now, row,
                   duration_seconds, elapsed, activity_type, failures,
                   errors_logged, controls, next_button, instance, created,
                   initialized, new_lock, kpc, nconstructions, inits, rvars,
                   evars>>

(* --------------------------- parse_time_text ---------------------------- *)

\* texts are sequences of characters
Digits == <<"0", "1", "2", "3", "4", "5", "6", "7", "8", "9">>

\* the decimal text of a number below 100
NumText(n) ==
    IF n < 10 THEN <<Digits[n + 1]>>
    ELSE <<Digits[(n \div 10) + 1], Digits[(n % 10) + 1]>>

\* the units of the relative forms, with their length in seconds (a month
\* is 30 days, a year 365 days)
Units ==
    {[word |-> <<"s", "e", "c", "o", "n", "d">>, seconds |-> 1],
     [word |-> <<"m", "i", "n", "u", "t", "e">>, seconds |-> 60],
     [word |-> <<"h", "o", "u", "r">>, seconds |-> 3600],
     [word |-> <<"d", "a", "y">>, seconds |-> 86400],
     [word |-> <<"w", "e", "e", "k">>, seconds |-> 604800],
     [word |-> <<"m", "o", "n", "t", "h">>, seconds |-> 2592000],
     [word |-> <<"y", "e", "a", "r">>, seconds |-> 31536000]}

\* the abbreviations Solscan shows
Abbreviations == {<<"s", "e", "c">>, <<"m", "i", "n">>, <<"h", "r">>}

\* "<n> <word> ago", with the plural s or without
RelativeText(n, word, plural) ==
    NumText(n) \o <<" ">> \o word \o (IF plural THEN <<"s">> ELSE <<>>) \o
    <<" ", "a", "g", "o">>

\* texts of the relative forms
RelativeTexts ==
    {RelativeText(n, w, p) :
        n \in 0..MaxCount,
        w \in {u.word : u \in Units} \cup Abbreviations,
        p \in BOOLEAN}

\* the absolute texts strptime can parse, with the format that parses them
\* and the instant they denote
Parsable ==
    {[text |-> <<"2", "0", "2", "3", "-", "1", "2", "-", "2", "1", " ", "1", "7", ":", "3", "0", ":", "0", "0">>,
      format |-> "%Y-%m-%d %H:%M:%S", value |-> 1703179800],
     [text |-> <<"D", "e", "c", " ", "2", "1", ",", " ", "2", "0", "2", "3", " ", "5", ":", "3", "0", " ", "P", "M">>,
      format |-> "%b %d, %Y %I:%M %p", value |-> 1703179800]}

\* other texts: "just now", texts with "ago" and no number, with an unknown
\* unit, with capitals and with spaces around, and a text that is no time
OtherTexts ==
    {<<"j", "u", "s", "t", " ", "n", "o", "w">>,
     <<"m", "i", "n", "s", " ", "a", "g", "o">>,
     <<"a", "n", " ", "h", "o", "u", "r", " ", "a", "g", "o">>,
     <<"5", " ", "b", "l", "o", "c", "k", "s", " ", "a", "g", "o">>,
     <<"3", " ", "M", "i", "n", "s", " ", "A", "g", "o">>,
     <<" ", "7", " ", "d", "a", "y", "s", " ", "a", "g", "o", " ">>,
     <<"y", "e", "s", "t", "e", "r", "d", "a", "y">>,
     <<>>}

TimeTexts == RelativeTexts \cup {p.text : p \in Parsable} \cup OtherTexts

\* the instants parse_time_text is evaluated at
Instants == {1730000000, 1730790000}

\* str.lower() on the capitals that occur
LowerChar(c) ==
    IF c = "A" THEN "a" ELSE IF c = "M" THEN "m" ELSE IF c = "D" THEN "d"
    ELSE IF c = "P" THEN "p" ELSE c

Lower(s) == [i \in 1..Len(s) |-> LowerChar(s[i])]

\* `pattern in s`
Contains(s, pattern) ==
    \E i \in 0..(Len(s) - Len(pattern)) :
       \A j \in 1..Len(pattern) : s[i + j] = pattern[j]

IsDigit(c) == \E d \in 1..10 : Digits[d] = c

DigitValue(c) == (CHOOSE d \in 1..10 : Digits[d] = c) - 1

\* the value of the run of digits of s that starts at position i, after the
\* digits read so far
RECURSIVE DigitRun(_, _, _)
DigitRun(s, i, read) ==
    IF i > Len(s) \/ ~IsDigit(s[i]) THEN read
    ELSE DigitRun(s, i + 1, 10 * read + DigitValue(s[i]))

\* int(re.findall(r'\d+', s)[0]): -1 stands for the IndexError of a text
\* without digits
FirstNumber(s) ==
    IF \E i \in 1..Len(s) : IsDigit(s[i])
       THEN DigitRun(s, CHOOSE i \in 1..Len(s) :
                           /\ IsDigit(s[i])
                           /\ \A j \in 1..(i - 1) : ~IsDigit(s[j]), 0)
       ELSE -1

\* the formats tried in order
date_formats ==
    <<"%b %d, %Y %I:%M %p", "%B %d, %Y %I:%M %p", "%Y-%m-%d %H:%M:%S",
      "%Y-%m-%d %H:%M", "%d/%m/%Y %H:%M:%S", "%m/%d/%Y %H:%M:%S">>

\* the loop over date_formats from position i on: the first format that
\* parses the text gives the instant, else it is now
RECURSIVE TryFormats(_, _, _)
TryFormats(text, i, t) ==
    IF i > Len(date_formats) THEN [raised |-> FALSE, value |-> t]
    ELSE IF \E p \in Parsable : p.text = text /\ p.format = date_formats[i]
       THEN [raised |-> FALSE,
             value |-> (CHOOSE p \in Parsable :
                           p.text = text /\ p.format = date_formats[i]).value]
    ELSE TryFormats(text, i + 1, t)

\* `return now - timedelta(<unit>=int(re.findall(...)[0]))`
Ago(text, seconds, t) ==
    IF FirstNumber(text) < 0 THEN [raised |-> TRUE, value |-> 0]
    ELSE [raised |-> FALSE, value |-> t - FirstNumber(text) * seconds]

\* the body of the try block of parse_time_text, evaluated at instant t
ParseBody(raw, t) ==
    LET text == Strip(raw)
        time_text_lower == Lower(text)
        has(pattern) == Contains(time_text_lower, pattern)
    IN  IF has(<<"a", "g", "o">>) /\ has(<<"j", "u", "s", "t", " ", "n", "o", "w">>)
           THEN [raised |-> FALSE, value |-> t]
        ELSE IF has(<<"a", "g", "o">>) /\
                (has(<<"s", "e", "c">>) \/ has(<<"s", "e", "c", "o", "n", "d">>))
           THEN Ago(text, 1, t)
        ELSE IF has(<<"a", "g", "o">>) /\
                (has(<<"m", "i", "n">>) \/ has(<<"m", "i", "n", "u", "t", "e">>))
           THEN Ago(text, 60, t)
        ELSE IF has(<<"a", "g", "o">>) /\ has(<<"h", "r">>)
           THEN Ago(text, 3600, t)
        ELSE IF has(<<"a", "g", "o">>) /\ has(<<"d", "a", "y">>)
           THEN Ago(text, 86400, t)
        ELSE IF has(<<"a", "g", "o">>) /\ has(<<"w", "e", "e", "k">>)
           THEN Ago(text, 7 * 86400, t)
        ELSE IF has(<<"a", "g", "o">>) /\ has(<<"m", "o", "n", "t", "h">>)
           THEN Ago(text, 30 * 86400, t)
        ELSE IF has(<<"a", "g", "o">>) /\ has(<<"y", "e", "a", "r">>)
           THEN Ago(text, 365 * 86400, t)
        ELSE TryFormats(text, 1, t)

\* a parse_time_text whose exceptions leave the function
parse_time_text_raising(raw, t) ==
    ParseBody(raw, t)

\* parse_time_text(time_text) evaluated at instant t: the body, and
\* `except Exception: return datetime.now(timezone.utc)`
parse_time_text(raw, t) ==
    IF ParseBody(raw, t).raised THEN [raised |-> FALSE, value |-> t]
    ELSE ParseBody(raw, t)

\* a row is read at some instant and its time text is parsed
ParseTimeText ==
    /\ pc = "idle"
    /\ \E text \in TimeTexts, t \in Instants :
          /\ time_text' = text
          /\ now' = t
          /\ returned' = [fn |-> "parse_time_text",
                          result |-> parse_time_text(text, t)]
    /\ pc' = "done"
    /\ UNCHANGED <<caller, program_id, max_addresses, unique_addresses,
                   before, value, sig_i, req, tr_i, all_addresses,
                   transactions, page_count, rows_left, hist, fresh,
                   requests, examined, signers, address_idx,
                   token_bal_changes, n_pre, n_post, emit_i, changes,
                   pre_sol_bals, post_sol_bals, pre_items, post_items,
                   transaction, should_continue, clicks, rows_seen,
                   cutoff_seen, signatures, found_signatures,
                   balance_changes, failure, row, duration_seconds, elapsed,
                   activity_type, failures, errors_logged, controls,
                   next_button, instance, created, initialized, new_lock,
                   kpc, nconstructions, inits, rvars, evars>>

(* -------------------------- synthetic activity -------------------------- *)

\* the worker calls simulate_human_mouse_movement(driver)
SimulateHumanMouseMovement ==
    /\ pc = "idle"
    /\ caller' = "main"
    /\ failures' = 0
    /\ errors_logged' = 0
    /\ pc' = "mm_body"
    /\ UNCHANGED <<program_id, max_addresses, unique_addresses, before,
                   value, sig_i, req, returned, tr_i, all_addresses,
                   transactions, page_count, rows_left, hist, fresh,
                   requests, examined, signers, address_idx,
                   token_bal_changes, n_pre, n_post, emit_i, changes,
                   pre_sol_bals, post_sol_bals, pre_items, post_items,
                   transaction, should_continue, clicks, rows_seen,
                   cutoff_seen, signatures, found_signatures,
                   balance_changes, failure, time_text, now, row,
                   duration_seconds, elapsed, activity_type, controls,
                   next_button, instance, created, initialized, new_lock,
                   kpc, nconstructions, inits, rvars, evars>>

\* the body of simulate_human_mouse_movement: it completes, or a session
\* call (get_window_size, execute_script, perform) raises, or the window is
\* so small that random.randint(50, max_x) raises ValueError; the exception
\* is logged and the function returns
MM_Body ==
    /\ pc = "mm_body"
    /\ \E outcome \in {"completed", "WebDriverException", "ValueError"} :
          /\ failures' = IF outcome = "completed" THEN failures
                                                  ELSE failures + 1
          /\ errors_logged' = IF outcome = "completed" THEN errors_logged
                                                       ELSE errors_logged + 1
    /\ IF caller = "main"
          THEN /\ pc' = "done"
               /\ returned' = [fn |-> "simulate_human_mouse_movement",
                               raised |-> FALSE]
          ELSE /\ pc' = "ua_delay"
               /\ UNCHANGED returned
    /\ UNCHANGED <<caller, program_id, max_addresses, unique_addresses,
                   before, value, sig_i, req, tr_i, all_addresses,
                   transactions, page_count, rows_left, hist, fresh,
                   requests, examined, signers, address_idx,
                   token_bal_changes, n_pre, n_post, emit_i, changes,
                   pre_sol_bals, post_sol_bals, pre_items, post_items,
                   transaction, should_continue, clicks, rows_seen,
                   cutoff_seen, signatures, found_signatures,
                   balance_changes, failure, time_text, now, row,
                   duration_seconds, elapsed, activity_type, controls,
                   next_button, instance, created, initialized, new_lock,
                   kpc, nconstructions, inits, rvars, evars>>

\* the worker calls simulate_random_user_activity(driver, d)
SimulateRandomUserActivity(d) ==
    /\ pc = "idle"
    /\ caller' = "simulate_random_user_activity"
    /\ duration_seconds' = d
    /\ elapsed' = 0
    /\ failures' = 0
    /\ errors_logged' = 0
    /\ pc' = "ua_while"
    /\ UNCHANGED <<program_id, max_addresses, unique_addresses, before,
                   value, sig_i, req, returned, tr_i, all_addresses,
                   transactions, page_count, rows_left, hist, fresh,
                   requests, examined, signers, address_idx,
                   token_bal_changes, n_pre, n_post, emit_i, changes,
                   pre_sol_bals, post_sol_bals, pre_items, post_items,
                   transaction, should_continue, clicks, rows_seen,
                   cutoff_seen, signatures, found_signatures,
                   balance_changes, failure, time_text, now, row,
                   activity_type, controls, next_button, instance, created,
                   initialized, new_lock, kpc, nconstructions, inits, rvars,
                   evars>>

\* `while time.time() - start_time < duration_seconds:` and the choice of
\* the activity; after the loop the function returns
UA_While ==
    /\ pc = "ua_while"
    /\ IF elapsed < duration_seconds
          THEN /\ \E a \in 1..4 : activity_type' = a
               /\ pc' = "ua_act"
               /\ UNCHANGED returned
          ELSE /\ pc' = "done"
               /\ returned' = [fn |-> "simulate_random_user_activity",
                               raised |-> FALSE]
               /\ UNCHANGED activity_type
    /\ UNCHANGED <<caller, program_id, max_addresses, unique_addresses,
                   before, value, sig_i, req, tr_i, all_addresses,
                   transactions, page_count, rows_left, hist, fresh,
                   requests, examined, signers, address_idx,
                   token_bal_changes, n_pre, n_post, emit_i, changes,
                   pre_sol_bals, post_sol_bals, pre_items, post_items,
                   transaction, should_continue, clicks, rows_seen,
                   cutoff_seen, signatures, found_signatures,
                   balance_changes, failure, time_text, now, row,
                   duration_seconds, elapsed, failures, errors_logged,
                   controls, next_button, instance, created, initialized,
                   new_lock, kpc, nconstructions, inits, rvars, evars>>

\* activity 1: simulate_human_mouse_movement is called
UA_Mouse ==
    /\ pc = "ua_act"
    /\ activity_type = 1
    /\ pc' = "mm_body"
    /\ UNCHANGED <<caller, program_id, max_addresses, unique_addresses,
                   before, value, sig_i, req, returned, tr_i, all_addresses,
                   transactions, page_count, rows_left, hist, fresh,
                   requests, examined, signers, address_idx,
                   token_bal_changes, n_pre, n_post, emit_i, changes,
                   pre_sol_bals, post_sol_bals, pre_items, post_items,
                   transaction, should_continue, clicks, rows_seen,
                   cutoff_seen, signatures, found_signatures,
                   balance_changes, failure, time_text, now, row,
                   duration_seconds, elapsed, activity_type, failures,
                   errors_logged, controls, next_button, instance, created,
                   initialized, new_lock, kpc, nconstructions, inits, rvars,
                   evars>>

\* activity 2: execute_script scrolls, or raises; the exception leaves the
\* loop, is logged by the handler of the function, and the function returns
UA_Scroll ==
    /\ pc = "ua_act"
    /\ activity_type = 2
    /\ \/ /\ pc' = "ua_delay"
          /\ UNCHANGED <<failures, errors_logged, returned>>
       \/ /\ failures' = failures + 1
          /\ errors_logged' = errors_logged + 1
          /\ pc' = "done"
          /\ returned' = [fn |-> "simulate_random_user_activity",
                          raised |-> FALSE]
    /\ UNCHANGED <<caller, program_id, max_addresses, unique_addresses,
                   before, value, sig_i, req, tr_i, all_addresses,
                   transactions, page_count, rows_left, hist, fresh,
                   requests, examined, signers, address_idx,
                   token_bal_changes, n_pre, n_post, emit_i, changes,
                   pre_sol_bals, post_sol_bals, pre_items, post_items,
                   transaction, should_continue, clicks, rows_seen,
                   cutoff_seen, signatures, found_signatures,
                   balance_changes, failure, time_text, now, row,
                   duration_seconds, elapsed, activity_type, controls,
                   next_button, instance, created, initialized, new_lock,
                   kpc, nconstructions, inits, rvars, evars>>

\* activity 3: find_elements and the move to an element, or one of them
\* raises; `except: pass` drops the exception
UA_Interact ==
    /\ pc = "ua_act"
    /\ activity_type = 3
    /\ \/ UNCHANGED failures
       \/ failures' = failures + 1
    /\ pc' = "ua_delay"
    /\ UNCHANGED <<caller, program_id, max_addresses, unique_addresses,
                   before, value, sig_i, req, returned, tr_i, all_addresses,
                   transactions, page_count, rows_left, hist, fresh,
                   requests, examined, signers, address_idx,
                   token_bal_changes, n_pre, n_post, emit_i, changes,
                   pre_sol_bals, post_sol_bals, pre_items, post_items,
                   transaction, should_continue, clicks, rows_seen,
                   cutoff_seen, signatures, found_signatures,
                   balance_changes, failure, time_text, now, row,
                   duration_seconds, elapsed, activity_type, errors_logged,
                   controls, next_button, instance, created, initialized,
                   new_lock, kpc, nconstructions, inits, rvars, evars>>

\* activity 4: only a delay
UA_Wait ==
    /\ pc = "ua_act"
    /\ activity_type = 4
    /\ pc' = "ua_delay"
    /\ UNCHANGED <<caller, program_id, max_addresses, unique_addresses,
                   before, value, sig_i, req, returned, tr_i, all_addresses,
                   transactions, page_count, rows_left, hist, fresh,
                   requests, examined, signers, address_idx,
                   token_bal_changes, n_pre, n_post, emit_i, changes,
                   pre_sol_bals, post_sol_bals, pre_items, post_items,
                   transaction, should_continue, clicks, rows_seen,
                   cutoff_seen, signatures, found_signatures,
                   balance_changes, failure, time_text, now, row,
                   duration_seconds, elapsed, activity_type, failures,
                   errors_logged, controls, next_button, instance, created,
                   initialized, new_lock, kpc, nconstructions, inits, rvars,
                   evars>>

\* `self._human_like_delay(0.5, 2.0)`: with the activity before it, it has
\* taken some time
UA_Delay ==
    /\ pc = "ua_delay"
    /\ \E step \in 1..MaxStep : elapsed' = elapsed + step
    /\ pc' = "ua_while"
    /\ UNCHANGED <<caller, program_id, max_addresses, unique_addresses,
                   before, value, sig_i, req, returned, tr_i, all_addresses,
                   transactions, page_count, rows_left, hist, fresh,
                   requests, examined, signers, address_idx,
                   token_bal_changes, n_pre, n_post, emit_i, changes,
                   pre_sol_bals, post_sol_bals, pre_items, post_items,
                   transaction, should_continue, clicks, rows_seen,
                   cutoff_seen, signatures, found_signatures,
                   balance_changes, failure, time_text, now, row,
                   duration_seconds, activity_type, failures, errors_logged,
                   controls, next_button, instance, created, initialized,
                   new_lock, kpc, nconstructions, inits, rvars, evars>>

(* ------------------- construction of SeleniumManager -------------------- *)

\* no SeleniumManager has been constructed yet
NotConstructed ==
    /\ instance = None
    /\ created = 0
    /\ initialized = "unset"
    /\ new_lock = FALSE
    /\ kpc = [k \in Constructors |-> "idle"]
    /\ nconstructions = 0
    /\ inits = 0

\* thread k calls SeleniumManager(): __new__ tests `cls._instance is None`
\* without the lock
ConstructBegin(k) ==
    /\ kpc[k] \in {"idle", "constructed", "raised"}
    /\ nconstructions < MaxConstructions
    /\ nconstructions' = nconstructions + 1
    /\ kpc' = [kpc EXCEPT ![k] = IF instance = None THEN "new_lock"
                                                    ELSE "init_test"]
    /\ UNCHANGED <<pc, caller, program_id, max_addresses, unique_addresses,
                   before, value, sig_i, req, returned, tr_i, all_addresses,
                   transactions, page_count, rows_left, hist, fresh,
                   requests, examined, signers, address_idx,
                   token_bal_changes, n_pre, n_post, emit_i, changes,
                   pre_sol_bals, post_sol_bals, pre_items, post_items,
                   transaction, should_continue, clicks, rows_seen,
                   cutoff_seen, signatures, found_signatures,
                   balance_changes, failure, time_text, now, row,
                   duration_seconds, elapsed, activity_type, failures,
                   errors_logged, controls, next_button, instance, created,
                   initialized, new_lock, inits, rvars, evars>>

\* `with cls._lock: if cls._instance is None:` and the creation of the
\* object, which has no attribute _initialized yet
NewLock(k) ==
    /\ kpc[k] = "new_lock"
    /\ ~new_lock
    /\ IF instance = None
          THEN /\ created' = created + 1
               /\ instance' = created + 1
               /\ new_lock' = TRUE
               /\ kpc' = [kpc EXCEPT ![k] = "new_flag"]
          ELSE /\ kpc' = [kpc EXCEPT ![k] = "init_test"]
               /\ UNCHANGED <<created, instance, new_lock>>
    /\ UNCHANGED initialized
    /\ UNCHANGED <<pc, caller, program_id, max_addresses, unique_addresses,
                   before, value, sig_i, req, returned, tr_i, all_addresses,
                   transactions, page_count, rows_left, hist, fresh,
                   requests, examined, signers, address_idx,
                   token_bal_changes, n_pre, n_post, emit_i, changes,
                   pre_sol_bals, post_sol_bals, pre_items, post_items,
                   transaction, should_continue, clicks, rows_seen,
                   cutoff_seen, signatures, found_signatures,
                   balance_changes, failure, time_text, now, row,
                   duration_seconds, elapsed, activity_type, failures,
                   errors_logged, controls, next_button, nconstructions,
                   inits, rvars, evars>>

\* `cls._instance._initialized = False` and the release of the lock
NewFlag(k) ==
    /\ kpc[k] = "new_flag"
    /\ initialized' = "False"
    /\ new_lock' = FALSE
    /\ kpc' = [kpc EXCEPT ![k] = "init_test"]
    /\ UNCHANGED <<pc, caller, program_id, max_addresses, unique_addresses,
                   before, value, sig_i, req, returned, tr_i, all_addresses,
                   transactions, page_count, rows_left, hist, fresh,
                   requests, examined, signers, address_idx,
                   token_bal_changes, n_pre, n_post, emit_i, changes,
                   pre_sol_bals, post_sol_bals, pre_items, post_items,
                   transaction, should_continue, clicks, rows_seen,
                   cutoff_seen, signatures, found_signatures,
                   balance_changes, failure, time_text, now, row,
                   duration_seconds, elapsed, activity_type, failures,
                   errors_logged, controls, next_button, instance, created,
                   nconstructions, inits, rvars, evars>>

\* __new__ returns cls._instance and __init__ tests `self._initialized`:
\* AttributeError when the attribute is not assigned yet, return when it is
\* True
InitTest(k) ==
    /\ kpc[k] = "init_test"
    /\ kpc' = [kpc EXCEPT ![k] =
                 IF initialized = "unset" THEN "raised"
                 ELSE IF initialized = "True" THEN "constructed"
                 ELSE "init_set"]
    /\ UNCHANGED <<pc, caller, program_id, max_addresses, unique_addresses,
                   before, value, sig_i, req, returned, tr_i, all_addresses,
                   transactions, page_count, rows_left, hist, fresh,
                   requests, examined, signers, address_idx,
                   token_bal_changes, n_pre, n_post, emit_i, changes,
                   pre_sol_bals, post_sol_bals, pre_items, post_items,
                   transaction, should_continue, clicks, rows_seen,
                   cutoff_seen, signatures, found_signatures,
                   balance_changes, failure, time_text, now, row,
                   duration_seconds, elapsed, activity_type, failures,
                   errors_logged, controls, next_button, instance, created,
                   initialized, new_lock, nconstructions, inits, rvars, evars>>

\* `self._initialized = True`
InitSet(k) ==
    /\ kpc[k] = "init_set"
    /\ initialized' = "True"
    /\ kpc' = [kpc EXCEPT ![k] = "init_fields"]
    /\ UNCHANGED <<pc, caller, program_id, max_addresses, unique_addresses,
                   before, value, sig_i, req, returned, tr_i, all_addresses,
                   transactions, page_count, rows_left, hist, fresh,
                   requests, examined, signers, address_idx,
                   token_bal_changes, n_pre, n_post, emit_i, changes,
                   pre_sol_bals, post_sol_bals, pre_items, post_items,
                   transaction, should_continue, clicks, rows_seen,
                   cutoff_seen, signatures, found_signatures,
                   balance_changes, failure, time_text, now, row,
                   duration_seconds, elapsed, activity_type, failures,
                   errors_logged, controls, next_button, instance, created,
                   new_lock, nconstructions, inits, rvars, evars>>

\* the assignments of __init__: driver, task_queue, worker_thread, running
\* and setup_lock
InitFields(k) ==
    /\ kpc[k] = "init_fields"
    /\ driver' = None
    /\ task_queue' = <<>>
    /\ worker_thread' = None
    /\ running' = FALSE
    /\ setup_lock' = FALSE
    /\ inits' = inits + 1
    /\ kpc' = [kpc EXCEPT ![k] = "constructed"]
    /\ UNCHANGED <<pc, caller, program_id, max_addresses, unique_addresses,
                   before, value, sig_i, req, returned, tr_i, all_addresses,
                   transactions, page_count, rows_left, hist, fresh,
                   requests, examined, signers, address_idx,
                   token_bal_changes, n_pre, n_post, emit_i, changes,
                   pre_sol_bals, post_sol_bals, pre_items, post_items,
                   transaction, should_continue, clicks, rows_seen,
                   cutoff_seen, signatures, found_signatures,
                   balance_changes, failure, time_text, now, row,
                   duration_seconds, elapsed, activity_type, failures,
                   errors_logged, controls, next_button, instance, created,
                   initialized, new_lock, nconstructions, rvars, wpc, wtask,
                   wdriver, wapproach, nput, func, result, exception,
                   completed, nsess, quit, lpc, lquit, cpc, ctask, lastRet,
                   execLog>>

\* a thread whose construction has returned uses the instance
InUse == \E k \in Constructors : kpc[k] = "constructed"

(* -------------------------- specifications ----------------------------- *)

Init == EngineInit /\ RpcIdle /\ ServiceIdle

\* one step of a worker thread
WorkerStep(w) ==
    \/ WorkerLoop(w)
    \/ WorkerGetEmpty(w)
    \/ WorkerGetPill(w)
    \/ WorkerGetTask(w)
    \/ WorkerSetupCtorRaises(w)
    \/ WorkerSetupWindowRaises(w)
    \/ WorkerSetupSucceeds(w)
    \/ WorkerFinish(w)

\* the engine with its lifecycle thread, its submitters and its workers
Next ==
    \/ \E w \in Workers : WorkerLoop(w)
    \/ \E w \in Workers : WorkerGetEmpty(w)
    \/ \E w \in Workers : WorkerGetPill(w)
    \/ \E w \in Workers : WorkerGetTask(w)
    \/ \E w \in Workers : WorkerSetupCtorRaises(w)
    \/ \E w \in Workers : WorkerSetupWindowRaises(w)
    \/ \E w \in Workers : WorkerSetupSucceeds(w)
    \/ \E w \in Workers : WorkerFinish(w)
    \/ StartRunning
    \/ StartStopped
    \/ StopStopped
    \/ StopBegin
    \/ StopJoined
    \/ StopJoinTimeout
    \/ StopNoDriver
    \/ \E how \in {"ok", "raised"} : StopQuit(how)
    \/ StopReturn
    \/ \E c \in Submitters : AddTaskStopped(c)
    \/ \E c \in Submitters : AddTaskBeginWithStop(c)
    \/ \E c \in Submitters, op \in {"add", "exec"}, f \in {"ok", "raises"} :
          AddTaskPut(c, op, f)
    \/ \E c \in Submitters : WaitCompleted(c)
    \/ \E c \in Submitters : WaitTimeout(c)

Spec == Init /\ [][Next]_vars

\* the engine started and never stopped: start() and the submitters only.
\* The worker is a thread of its own, which the operating system keeps
\* scheduling, and every task function returns or raises.
NextRun ==
    \/ \E w \in Workers : WorkerLoop(w)
    \/ \E w \in Workers : WorkerGetEmpty(w)
    \/ \E w \in Workers : WorkerGetTask(w)
    \/ \E w \in Workers : WorkerSetupCtorRaises(w)
    \/ \E w \in Workers : WorkerSetupWindowRaises(w)
    \/ \E w \in Workers : WorkerSetupSucceeds(w)
    \/ \E w \in Workers : WorkerFinish(w)
    \/ StartRunning
    \/ StartStopped
    \/ \E c \in Submitters : AddTaskStopped(c)
    \/ \E c \in Submitters : AddTaskBegin(c)
    \/ \E c \in Submitters, op \in {"add", "exec"}, f \in {"ok", "raises"} :
          AddTaskPut(c, op, f)
    \/ \E c \in Submitters : WaitCompleted(c)
    \/ \E c \in Submitters : WaitTimeout(c)

RunSpec ==
    Init /\ [][NextRun]_vars /\ WF_vars(\E w \in Workers : WorkerStep(w))

\* one SolanaRPCClient and the calls of its retry helper
RetryInit == EngineInit /\ RpcInit /\ ServiceIdle

RetryNext ==
    \/ \E m \in 0..MaxRetries : RetryInvoke(m)
    \/ \E o \in Outcomes : RetryCall(o)
    \/ RetryBackoff

RetrySpec == RetryInit /\ [][RetryNext]_vars

\* the main thread inside one call of a discovery or history function, on
\* one SolanaRPCClient. The thread keeps running and every request to the
\* node returns or raises. The endpoints are interchangeable for these
\* functions: the pool is the current endpoint alone or with one alternative.
ServiceInit ==
    /\ EngineInit
    /\ RpcInit
    /\ current_rpc_url = 1
    /\ rpc_urls \subseteq {1, 2}
    /\ ServiceIdle

ServiceNext ==
    \/ \E p \in Axiom, n \in 0..MaxAddresses, h \in 0..MaxHistory :
          GetProgramAccounts(p, n, h)
    \/ PA_While
    \/ PA_Page
    \/ PA_FetchTx
    \/ PA_Tx
    \/ PA_NextPage
    \/ PA_Return
    \/ \E n \in 0..MaxAddresses, h1, h2 \in 0..MaxHistory :
          GetAxiomTraders(n, h1, h2)
    \/ TR_For
    \/ TR_Got
    \/ TR_Return
    \/ \E h \in 0..MaxHistory, f \in 0..MaxHistory :
          f <= h /\ GetAddressTransactions(h, f)
    \/ AT_Page
    \/ AT_For
    \/ AT_ForEnd
    \/ AT_Tx
    \/ AT_Return
    \/ \E p \in Axiom, n \in 0..MaxAddresses : ExtractTableDataTask(p, n)
    \/ TB_While
    \/ TB_Row
    \/ TB_Next
    \/ TB_Return
    \/ ServerCall
    \/ RetryBackoff

ServiceSpec == ServiceInit /\ [][ServiceNext]_vars /\ WF_vars(ServiceNext)

\* the two functions of SolanaRPCClient that main calls
ClientNext ==
    \/ \E p \in Axiom, n \in 0..MaxAddresses, h \in 0..MaxHistory :
          GetProgramAccounts(p, n, h)
    \/ PA_While
    \/ PA_Page
    \/ PA_FetchTx
    \/ PA_Tx
    \/ PA_NextPage
    \/ PA_Return
    \/ \E h \in 0..MaxHistory, f \in 0..MaxHistory :
          f <= h /\ GetAddressTransactions(h, f)
    \/ AT_Page
    \/ AT_For
    \/ AT_ForEnd
    \/ AT_Tx
    \/ AT_Return
    \/ ServerCall
    \/ RetryBackoff

ClientSpec == ServiceInit /\ [][ClientNext]_vars

\* get_program_accounts alone
ProgramAccountsNext ==
    \/ \E p \in Axiom, n \in 0..MaxAddresses, h \in 0..MaxHistory :
          GetProgramAccounts(p, n, h)
    \/ PA_While
    \/ PA_Page
    \/ PA_FetchTx
    \/ PA_Tx
    \/ PA_NextPage
    \/ PA_Return
    \/ ServerCall
    \/ RetryBackoff

ProgramAccountsSpec ==
    ServiceInit /\ [][ProgramAccountsNext]_vars /\ WF_vars(ProgramAccountsNext)

\* get_address_transactions alone
AddressTransactionsNext ==
    \/ \E h \in 0..MaxHistory, f \in 0..MaxHistory :
          f <= h /\ GetAddressTransactions(h, f)
    \/ AT_Page
    \/ AT_For
    \/ AT_ForEnd
    \/ AT_Tx
    \/ AT_Return
    \/ ServerCall
    \/ RetryBackoff

AddressTransactionsSpec == ServiceInit /\ [][AddressTransactionsNext]_vars

\* _extract_balance_changes alone
BalanceNext ==
    \/ ExtractBalanceChanges
    \/ BC_Pre
    \/ BC_PreEnd
    \/ BC_Post
    \/ BC_PostEnd
    \/ BC_Emit
    \/ BC_Name
    \/ BC_Sol
    \/ ServerCall
    \/ RetryBackoff

BalanceSpec == ServiceInit /\ [][BalanceNext]_vars

\* _extract_instructions alone
InstructionsNext == ExtractInstructions

InstructionsSpec == ServiceInit /\ [][InstructionsNext]_vars

\* _parse_transaction alone
ParseNext == ParseTransaction

ParseSpec == ServiceInit /\ [][ParseNext]_vars

\* extract_address_transactions_task alone
TransactionsTaskNext ==
    \/ ExtractAddressTransactionsTask
    \/ XT_While
    \/ XT_Row
    \/ XT_Next
    \/ XT_Return

TransactionsTaskSpec == Init /\ [][TransactionsTaskNext]_vars

\* the three scraping tasks, each called once; the worker thread keeps
\* running and every call to the browser returns or raises
ScrapingNext ==
    \/ \E p \in Axiom, n \in 0..MaxAddresses : ExtractTableDataTask(p, n)
    \/ TB_While
    \/ TB_Row
    \/ TB_Next
    \/ TB_Return
    \/ ExtractAddressTransactionsTask
    \/ XT_While
    \/ XT_Row
    \/ XT_Next
    \/ XT_Return
    \/ \E sigs \in SignatureLists : ExtractBalanceChangesTask(sigs)
    \/ XB_While
    \/ XB_Row
    \/ XB_Next
    \/ XB_Return

ScrapingSpec == Init /\ [][ScrapingNext]_vars /\ WF_vars(ScrapingNext)

\* the top-level operations get_trading_history, scrape_address_transactions
\* and scrape_solscan_account, one call of one of them
TopLevelNext ==
    \/ \E h \in 0..MaxHistory : \E f \in 0..h : GetTradingHistory(h, f)
    \/ AT_Page
    \/ AT_For
    \/ AT_ForEnd
    \/ AT_Tx
    \/ AT_Return
    \/ TH_Got
    \/ ServerCall
    \/ RetryBackoff
    \/ ScrapeAddressTransactions
    \/ SA_Task1
    \/ XT_While
    \/ XT_Row
    \/ XT_Next
    \/ XT_Return
    \/ SA_Got1
    \/ SA_Task2
    \/ XB_While
    \/ XB_Row
    \/ XB_Next
    \/ XB_Return
    \/ SA_Got2
    \/ SA_Except
    \/ \E p \in Axiom, n \in 0..MaxAddresses : ScrapeSolscanAccount(p, n)
    \/ SS_Task
    \/ TB_While
    \/ TB_Row
    \/ TB_Next
    \/ TB_Return
    \/ SS_Got
    \/ SS_Except

TopLevelSpec == ServiceInit /\ [][TopLevelNext]_vars

\* parse_time_text alone
TimeNext == ParseTimeText

TimeSpec == Init /\ [][TimeNext]_vars

\* extract_balance_changes_task alone
BalanceTaskNext ==
    \/ \E sigs \in SignatureLists : ExtractBalanceChangesTask(sigs)
    \/ XB_While
    \/ XB_Row
    \/ XB_Next
    \/ XB_Return

BalanceTaskSpec == Init /\ [][BalanceTaskNext]_vars

\* the synthetic-activity functions alone; every step is taken eventually
ActivityNext ==
    \/ SimulateHumanMouseMovement
    \/ MM_Body
    \/ \E d \in 0..MaxDuration : SimulateRandomUserActivity(d)
    \/ UA_While
    \/ UA_Mouse
    \/ UA_Scroll
    \/ UA_Interact
    \/ UA_Wait
    \/ UA_Delay

ActivitySpec == Init /\ [][ActivityNext]_vars /\ WF_vars(ActivityNext)

\* the pagination step alone
NextPageNext == NextPageStep

NextPageSpec == Init /\ [][NextPageNext]_vars

\* a step of a stop() in progress
StopStep ==
    \/ StopJoined
    \/ StopJoinTimeout
    \/ StopNoDriver
    \/ \E how \in {"ok", "raised"} : StopQuit(how)
    \/ StopReturn

\* a step of an add_task / execute_task in progress
SubmitStep ==
    \/ \E c \in Submitters, op \in {"add", "exec"}, f \in {"ok", "raises"} :
          AddTaskPut(c, op, f)
    \/ \E c \in Submitters : WaitCompleted(c)
    \/ \E c \in Submitters : WaitTimeout(c)

\* the engine with stop(): every worker thread is scheduled fairly and a
\* call in progress goes on; callers are free to call start(), stop() and
\* add_task or not
FairSpec ==
    /\ Init
    /\ [][Next]_vars
    /\ WF_vars(\E w \in Workers : WorkerStep(w))
    /\ WF_vars(StopStep)
    /\ WF_vars(SubmitStep)

\* constructions of SeleniumManager() by several threads, and start() and
\* add_task on the instance by the threads that have it
ConstructInit ==
    /\ EngineInit
    /\ RpcIdle
    /\ FunctionsIdle
    /\ NotConstructed

ConstructNext ==
    \/ \E k \in Constructors : ConstructBegin(k)
    \/ \E k \in Constructors : NewLock(k)
    \/ \E k \in Constructors : NewFlag(k)
    \/ \E k \in Constructors : InitTest(k)
    \/ \E k \in Constructors : InitSet(k)
    \/ \E k \in Constructors : InitFields(k)
    \/ InUse /\ StartStopped
    \/ InUse /\ StartRunning
    \/ InUse /\ \E c \in Submitters : AddTaskStopped(c)
    \/ InUse /\ \E c \in Submitters : AddTaskBegin(c)
    \/ InUse /\ \E c \in Submitters, f \in {"ok", "raises"} : AddTaskPut(c, "add", f)

ConstructSpec == ConstructInit /\ [][ConstructNext]_vars

\* extract_table_data_task alone
TableNext ==
    \/ \E p \in Axiom, n \in 0..MaxAddresses : ExtractTableDataTask(p, n)
    \/ TB_While
    \/ TB_Row
    \/ TB_Next
    \/ TB_Return

TableSpec == Init /\ [][TableNext]_vars

(* ------------------------------ claims --------------------------------- *)

\* workers inside a task's function
Executing == {w \in Workers : wpc[w] = "execute"}
\* the function of task t has been called
InLog(t) == \E i \in 1..Len(execLog) : execLog[i] = t
\* the outcomes with which a stop() that ran to its end returns
StopEnded == {StopOutcome(q) : q \in {"none", "ok", "raised"}}

\* C1 (RunSpec: the engine started and not stopped, any submitters): no two
\* units execute at overlapping times, units start executing in the order
\* they were enqueued (tasks are numbered in enqueue order), and a unit
\* still queued was enqueued after every unit that has started.
C1_OneAtATimeInOrder ==
    /\ Cardinality(Executing) <= 1
    /\ \A i, j \in 1..Len(execLog) : i < j => execLog[i] < execLog[j]
    /\ \A i \in 1..Len(execLog), k \in 1..Len(task_queue) :
          task_queue[k] # None => execLog[i] < task_queue[k]

\* two submitters wait at the same time for their units, one unit has
\* been executed and the next one is executing
C1_Witness ==
    /\ Len(execLog) >= 2
    /\ Executing # {}
    /\ \E c, d \in Submitters : c # d /\ cpc[c] = "wait" /\ cpc[d] = "wait"

\* C2: after a stop() followed by a start(), a unit submitted with
\* execute_task is executed. Stated on states: on a restarted, running
\* engine with no start() or stop() in progress, an execute_task caller
\* waiting for its unit has a live worker to execute it (no code path
\* creates a worker while running is True).
C2_RestartCompletesWork ==
    ( /\ Cardinality(Spawned) >= 2
      /\ running
      /\ lpc = "idle"
      /\ \E c \in Submitters : cpc[c] = "wait" /\ ~completed[ctask[c]] )
    => Alive # {}

\* C3: at every moment at most one worker thread is taking units from the
\* task queue.
C3_SingleDrainingWorker ==
    Cardinality({w \in Workers : wpc[w] = "get"}) <= 1

\* C4: no thread other than the worker calls into or closes the session
\* while the worker is executing a unit on it (driver.quit() is the only
\* call made on the session outside the worker).
C4_SessionOnlyWorker ==
    \A w \in Workers :
        (wpc[w] = "execute" /\ wdriver[w] # None) => ~quit[wdriver[w]]

\* C5 (RunSpec): a unit whose function raises gets its exception recorded
\* and its completion set, the exception is what its submitter's
\* wait_for_completion raises, the worker does not end, and every unit
\* enqueued after it is still executed and completed, with its result if
\* its function returns.
C5_FaultIsolation ==
    /\ [](\A w \in Workers : wpc[w] # "dead")
    /\ [](lastRet.kind = "FuncError" =>
            /\ func[lastRet.task] = "raises"
            /\ exception[lastRet.task] = "FuncError")
    /\ [](lastRet.kind = "result" =>
            /\ func[lastRet.task] = "ok"
            /\ lastRet.val = lastRet.task)
    /\ \A t \in Tasks :
          [](func[t] = "raises" => <>(completed[t] /\ exception[t] # "none"))
    /\ \A t, u \in Tasks :
          [](((t < u) /\ exception[t] = "FuncError" /\ func[u] # "none") =>
                <>(/\ completed[u]
                   /\ InLog(u)
                   /\ (func[u] = "ok" => result[u] = u)))

\* [ok, raises, ok] have been executed in that order: result, failure,
\* result
C5_Witness ==
    /\ execLog = <<1, 2, 3>>
    /\ func = <<"ok", "raises", "ok">>
    /\ result = <<1, None, 3>>
    /\ exception = <<"none", "FuncError", "none">>
    /\ \A t \in 1..3 : completed[t]
    /\ Alive # {}

C7_StopReleases ==
    (lastRet.who = Lifecycle /\ lastRet.kind \in StopEnded) =>
        (~running /\ driver = None)

\* C8: a start() on a running engine and a stop() on a stopped engine
\* change nothing: no worker is spawned, no poison pill is enqueued, the
\* running flag, the queue, the session and the lock stay as they are.
C8_StartStopIdempotent ==
    [][( \/ (running /\ lpc = "idle" /\
               lastRet'.kind \in {"start: started", "start: already running"})
         \/ (~running /\ lpc = "idle" /\
               lastRet'.kind \in StopEnded \cup {"stop: not running"}) )
       => UNCHANGED <<running, task_queue, driver, worker_thread, wpc,
                      setup_lock, nsess, quit, lpc>>]_vars

\* start() has just returned on an engine that was already running, with
\* a live worker and units in the queue
C8_Witness ==
    /\ lastRet.kind = "start: already running"
    /\ Alive # {}
    /\ task_queue # <<>>

\* C9: when every strategy of a session setup has failed, the pending unit
\* is completed with the setup failure, its function has not been called,
\* and the engine holds no session, so that the next unit starts a fresh
\* setup.
C9_SetupFailureIsClean ==
    [][\A w \in Workers :
          (wpc[w] = "setup" /\ wpc'[w] = "loop") =>
             /\ exception'[wtask[w]] = "SetupFailed"
             /\ completed'[wtask[w]]
             /\ \A i \in 1..Len(execLog') : execLog'[i] # wtask[w]
             /\ driver' = None]_vars

\* C10 (RetrySpec): when the pool holds only the current endpoint and no
\* call is accepted, _retry_request gives up only after max_retries retries,
\* i.e. after max_retries + 1 calls.
C10_RetriesOnSameEndpoint ==
    (rpc_pc = "done" /\ response = "None" /\ rpc_urls = {current_rpc_url})
        => Len(callLog) = max_retries + 1

\* C11 (RetrySpec): within one _retry_request the endpoint is switched at
\* most once; a switch happens only in the backoff that precedes the second
\* attempt (one call made, attempt = 1); the attempts after the second see
\* the endpoint the second saw; and the first attempt is made on the endpoint
\* that was current when _retry_request was entered.
C11_SwitchOnlyBeforeSecondAttempt ==
    /\ [](switches <= 1)
    /\ [][(current_rpc_url' # current_rpc_url \/ client' # client) =>
            /\ rpc_pc = "backoff"
            /\ attempt = 1
            /\ Len(callLog) = 1
            /\ rpc_pc' = "call"]_vars
    /\ [](\A i \in 1..Len(callLog) :
            /\ callLog[i].attempt = i - 1
            /\ i = 1 => callLog[i].url = callLog[i].current
            /\ i >= 3 => callLog[i].current = callLog[2].current)

\* all four attempts of a _retry_request with max_retries = 3 have been
\* made, with one switch, between the first and the second
C11_Witness ==
    /\ rpc_pc = "done"
    /\ Len(callLog) = 4
    /\ switches = 1
    /\ callLog[1].current # callLog[2].current
    /\ callLog[4].current = callLog[2].current

\* C12: _retry_request returns as success only a response with a non-empty
\* value: a response whose value is None or empty is a failed attempt.
C12_EmptyValueIsFailure ==
    (rpc_pc = "done" /\ response # "None") => response = "value data"

\* C13 (ClientSpec): no exception leaves _retry_request, a call that raised
\* is not returned as a success, and when all max_retries + 1 calls failed
\* it returns None; a None for a signature listing makes
\* get_program_accounts and get_address_transactions go to their return
\* statement, a None for a transaction makes them go on with the next
\* signature, and what they return is well formed.
C13_NullIsEndOfData ==
    /\ [](response # "exception" /\ pc # "raised")
    /\ []((rpc_pc = "done" /\ callLog # <<>> /\
           callLog[Len(callLog)].outcome = "raises") => response = "None")
    /\ []((rpc_pc = "done" /\ Len(callLog) = max_retries + 1 /\
           ~Accepted(callLog[Len(callLog)].outcome)) => response = "None")
    /\ [][(rpc_pc = "done" /\ response = "None") =>
            /\ pc = "pa_page" => pc' = "pa_return"
            /\ pc = "at_page" => pc' = "at_return"
            /\ pc = "pa_tx" => pc' = "pa_for"
            /\ pc = "at_tx" => pc' = "at_for"]_vars
    /\ [](pc = "done" =>
            /\ returned.fn = "get_program_accounts" =>
                  /\ returned.total_found = Len(returned.unique_addresses)
                  /\ Range(returned.unique_addresses) \subseteq Wallets
            /\ returned.fn = "get_address_transactions" =>
                  returned.total_found = Len(returned.transactions))

\* get_address_transactions has returned its empty result after the
\* signature listing raised in all four attempts
C13_Witness ==
    /\ pc = "done"
    /\ returned.fn = "get_address_transactions"
    /\ returned.total_found = 0
    /\ examined = <<>>
    /\ response = "None"
    /\ Len(callLog) = default_max_retries + 1
    /\ \A i \in 1..Len(callLog) : callLog[i].outcome = "raises"

\* C14 (ServiceSpec): for every max_addresses >= 0, get_program_accounts
\* and extract_table_data_task return at most max_addresses addresses, all
\* distinct, with total_found equal to their number, and get_axiom_traders
\* returns a list of at most max_addresses distinct addresses.
C14_AtMostNDistinct ==
    /\ returned.fn \in {"get_program_accounts", "extract_table_data_task"} =>
          /\ Len(returned.unique_addresses) <= max_addresses
          /\ \A i, j \in 1..Len(returned.unique_addresses) :
                i # j => returned.unique_addresses[i] #
                         returned.unique_addresses[j]
          /\ returned.total_found = Len(returned.unique_addresses)
    /\ returned.fn = "get_axiom_traders" =>
          /\ Len(returned.final_addresses) <= max_addresses
          /\ \A i, j \in 1..Len(returned.final_addresses) :
                i # j => returned.final_addresses[i] #
                         returned.final_addresses[j]

\* get_axiom_traders has collected more addresses than asked for over the
\* two programs and has returned as many as asked for
C14_Witness ==
    /\ pc = "done"
    /\ returned.fn = "get_axiom_traders"
    /\ tr_i = 2
    /\ Cardinality(all_addresses) > max_addresses
    /\ Len(returned.final_addresses) = max_addresses

\* C15 (ProgramAccountsSpec): neither Axiom program ID is ever in
\* unique_addresses or in the list get_program_accounts returns.
C15_NoProgramIdRpc ==
    /\ unique_addresses \cap Axiom = {}
    /\ returned.fn = "get_program_accounts" =>
          Range(returned.unique_addresses) \cap Axiom = {}

\* get_program_accounts has returned an address after it fetched
\* transactions whose first account key was the one and the other Axiom
\* program ID
C15_Witness ==
    /\ pc = "done"
    /\ signers = Axiom
    /\ returned.unique_addresses # <<>>

\* C16: no Axiom program ID is ever in the unique_addresses of
\* extract_table_data_task or in the list it returns.
C16_NoProgramIdScraper ==
    /\ unique_addresses \cap Axiom = {}
    /\ returned.fn = "extract_table_data_task" =>
          Range(returned.unique_addresses) \cap Axiom = {}

\* C17 (ProgramAccountsSpec): the first page is requested without cursor,
\* every later page with the last signature of the page before it, so that
\* no page is requested twice; no request is made once max_addresses
\* addresses are collected; the loop is left only with the target reached
\* or on an empty or null page; and every call of get_program_accounts
\* returns.
C17_PagesBackwardAndTerminates ==
    /\ [](\A i \in 1..Len(requests) :
            /\ i = 1 => requests[i].before = 0
            /\ i > 1 => requests[i].before =
                           Min(requests[i-1].before + requests[i-1].limit,
                               hist[program_id])
            /\ \A j \in 1..Len(requests) :
                  i < j => requests[i].before < requests[j].before)
    /\ []((pc # "idle" /\ Cardinality(unique_addresses) >= max_addresses)
            => rpc_pc \in {"idle", "done"})
    /\ [][(pc # "pa_return" /\ pc' = "pa_return") =>
            \/ Cardinality(unique_addresses) >= max_addresses
            \/ (pc = "pa_page" /\ response \in {"None", "value empty"})]_vars
    /\ (pc = "pa_while") ~> (pc = "done")

\* get_program_accounts has returned after three page requests
C17_Witness ==
    /\ pc = "done"
    /\ returned.fn = "get_program_accounts"
    /\ Len(requests) = 3
    /\ requests[3].before = hist[program_id]

\* C18: when the signature listing succeeded and get_address_transactions
\* has returned, every signature of the address that is newer than the
\* cutoff has been examined.
C18_EveryRecentSignatureExamined ==
    (pc = "done" /\ returned.fn = "get_address_transactions" /\ value # <<>>)
    => \A s \in 1..fresh :
          \E i \in 1..Len(examined) : examined[i].signature = s

\* an examined signature whose transaction belongs in the result
Qualifies(e) == ~e.err /\ e.fetched /\ e.axiom_keys > 0

\* C19 (AddressTransactionsSpec): the list transactions holds, in the order
\* of the listing, exactly the examined signatures that are not failed,
\* whose transaction was fetched and has an Axiom program ID among its
\* account keys; the result returns that list and its length as
\* total_found.
C19_ExactlyTheAxiomTransactions ==
    /\ LET q == SelectSeq(examined, Qualifies)
       IN  /\ Len(transactions) = Len(q)
           /\ \A i \in 1..Len(q) : transactions[i].signature = q[i].signature
    /\ \A i, j \in 1..Len(transactions) :
          i < j => transactions[i].signature < transactions[j].signature
    /\ returned.fn = "get_address_transactions" =>
          /\ returned.transactions = transactions
          /\ returned.total_found = Len(transactions)

\* two signatures examined, the failed one skipped and the other returned
C19_Witness ==
    /\ pc = "done"
    /\ Len(examined) = 2
    /\ \E i \in 1..2 : examined[i].err
    /\ returned.total_found = 1

\* C20 (BalanceSpec): no record in changes has a zero amount (post minus
\* pre); when _extract_balance_changes has returned, a mint whose pre and
\* post amounts for the address are equal has no record, and neither has SOL
\* when the address has equal pre and post balances.
C20_NoZeroChange ==
    /\ \A i \in 1..Len(changes) : changes[i].amount # 0
    /\ returned.fn = "_extract_balance_changes" =>
          /\ returned.changes = changes
          /\ \A k \in 1..Len(token_bal_changes) :
                token_bal_changes[k].pre = token_bal_changes[k].post =>
                   \A i \in 1..Len(changes) :
                      changes[i].token_address # token_bal_changes[k].mint
          /\ ( /\ address_idx >= 0
               /\ address_idx < Len(pre_sol_bals)
               /\ address_idx < Len(post_sol_bals)
               /\ pre_sol_bals[address_idx + 1] =
                  post_sol_bals[address_idx + 1] ) =>
                \A i \in 1..Len(changes) : changes[i].token_address # SOL

\* _extract_balance_changes has returned one record, for a mint that
\* changed, and none for a mint with equal amounts that are not zero and
\* none for the equal SOL balances that are not zero
C20_Witness ==
    /\ pc = "done"
    /\ Len(changes) = 1
    /\ \E k \in 1..Len(token_bal_changes) :
          /\ token_bal_changes[k].pre = token_bal_changes[k].post
          /\ token_bal_changes[k].pre > 0
    /\ address_idx >= 0
    /\ address_idx < Len(pre_sol_bals)
    /\ address_idx < Len(post_sol_bals)
    /\ pre_sol_bals[address_idx + 1] = post_sol_bals[address_idx + 1]
    /\ pre_sol_bals[address_idx + 1] > 0

\* the record of changes for a mint, as a set (empty when there is none)
ChangesOf(mint) ==
    {changes[i] : i \in {j \in 1..Len(changes) : changes[j].token_address = mint}}

\* C21 (BalanceSpec): when _extract_balance_changes has returned, a mint met
\* for the address only in the post list with a single amount a > 0 has one
\* change, of amount a (pre = 0) and post_balance a; a mint met only in the
\* pre list with a single amount a > 0 has one change, of amount -a and
\* post_balance 0.
C21_OneSidedMint ==
    returned.fn = "_extract_balance_changes" =>
       \A mint \in Mints : \A a \in 1..MaxAmount :
          /\ ( /\ \A p \in pre_items : p[1] # mint
               /\ \A p \in post_items : p[1] = mint => p[2] = a
               /\ <<mint, a>> \in post_items ) =>
                \E token_name \in {"SYMBOL", "Unknown Token"} :
                   ChangesOf(mint) =
                      {[token_address |-> mint, amount |-> a,
                        post_balance |-> a, token_name |-> token_name]}
          /\ ( /\ \A p \in post_items : p[1] # mint
               /\ \A p \in pre_items : p[1] = mint => p[2] = a
               /\ <<mint, a>> \in pre_items ) =>
                \E token_name \in {"SYMBOL", "Unknown Token"} :
                   ChangesOf(mint) =
                      {[token_address |-> mint, amount |-> 0 - a,
                        post_balance |-> 0, token_name |-> token_name]}

\* _extract_balance_changes has returned for a transaction with one mint
\* only in the post list and the other only in the pre list
C21_Witness ==
    /\ pc = "done"
    /\ returned.fn = "_extract_balance_changes"
    /\ pre_items = {<<"mintX", 1>>}
    /\ post_items = {<<"mintY", 1>>}
    /\ Len(changes) >= 2

\* no log message of the transaction names a known kind
NoKnownKind == \A i \in 1..Len(transaction.log_messages) :
    /\ ~transaction.log_messages[i].buy
    /\ ~transaction.log_messages[i].sell
    /\ ~transaction.log_messages[i].swap

\* C22 (InstructionsSpec): the list _extract_instructions returns is not
\* empty, has 'buy', 'sell' and 'swap' at most once each, and when no known
\* kind is identified it is the count label "<n>+" of a transaction with n
\* instructions, and ['Unknown'] only for a transaction without instructions.
C22_InstructionLabels ==
    returned.fn = "_extract_instructions" =>
       /\ returned.instructions # <<>>
       /\ \A kind \in {"buy", "sell", "swap"} :
             Cardinality({i \in 1..Len(returned.instructions) :
                             returned.instructions[i] = kind}) <= 1
       /\ NoKnownKind =>
             returned.instructions =
                IF transaction.instructions >= 1
                   THEN <<CountLabel(transaction.instructions)>>
                   ELSE <<"Unknown">>

\* C23 (ParseSpec): in the record _parse_transaction returns, value is the
\* text with 6 decimal places of the largest absolute lamport change over
\* the account indices divided by 10^9, and fee is the text with 6 decimal
\* places of the fee in lamports divided by 10^9, a zero value or fee
\* included.
C23_ValueAndFeeFixed6 ==
    returned.fn = "_parse_transaction" =>
       /\ returned.tx_data.value.places = 6
       /\ returned.tx_data.fee.places = 6
       /\ returned.tx_data.value =
             Fixed6(extract_transaction_value(transaction))
       /\ returned.tx_data.fee = Fixed6(transaction.fee)

\* C29 (TransactionsTaskSpec): once extract_address_transactions_task has
\* met a row older than the cutoff, no step accepts a row and no step clicks
\* the next-page button.
C29_CutoffStopsEverything ==
    [][cutoff_seen => (transactions' = transactions /\ clicks' = clicks)]_vars

\* the rows gone through that are within the time range, by position
InRange == {i \in 1..Len(rows_seen) :
               rows_seen[i].kind = "row" /\ ~rows_seen[i].old}

\* C30 (TransactionsTaskSpec): the signatures accepted by
\* extract_address_transactions_task are, in table order, exactly the rows
\* within the time range whose programs column links to one of the Axiom
\* program IDs and that are not failed.
C30_AcceptsAxiomNotFailed ==
    LET accepted == {transactions[k].signature : k \in 1..Len(transactions)}
    IN  /\ accepted = {i \in InRange : rows_seen[i].links \cap Axiom # {} /\
                                        ~rows_seen[i].failed}
        /\ \A j, k \in 1..Len(transactions) :
              j < k => transactions[j].signature < transactions[k].signature

\* the records under the signatures of the transactions of a scraping result
RECURSIVE SumRecords(_, _)
SumRecords(txs, records) ==
    IF txs = <<>> THEN 0
    ELSE Len(records[Head(txs).signature]) + SumRecords(Tail(txs), records)

\* C24 (TopLevelSpec): in a result of get_trading_history and of
\* scrape_address_transactions, total_transactions is the number of
\* transactions returned and balance_changes_found is the sum over them of
\* the number of balance-change records of each.
C24_SummaryCounts ==
    /\ (returned.fn = "get_trading_history" /\ returned.outcome = "result") =>
          /\ returned.total_transactions = Len(returned.transactions)
          /\ returned.balance_changes_found =
                SumBalanceChanges(returned.transactions)
    /\ ( /\ returned.fn = "scrape_address_transactions"
         /\ returned.outcome = "result" ) =>
          /\ returned.total_transactions = Len(returned.transactions)
          /\ returned.balance_changes_found =
                SumRecords(returned.transactions, returned.balance_changes)

\* a top-level operation has returned
TopLevelDone ==
    /\ pc = "done"
    /\ returned.fn \in {"get_trading_history", "scrape_address_transactions",
                        "scrape_solscan_account"}

\* the operation went through without failure and found nothing
FoundNothing ==
    /\ failure = "none"
    /\ IF returned.fn = "scrape_solscan_account"
          THEN unique_addresses = {}
          ELSE transactions = <<>>

\* the empty / zero-count structure
EmptyStructure ==
    /\ returned.outcome = "result"
    /\ IF returned.fn = "scrape_solscan_account"
          THEN returned.total_found = 0
          ELSE returned.total_transactions = 0

\* C25 (TopLevelSpec): a top-level operation that found nothing returns the
\* empty / zero-count structure, and one that failed (session setup, timeout
\* or another failure) does not return that structure.
C25_EmptyIsNotFailure ==
    TopLevelDone =>
       /\ FoundNothing => EmptyStructure
       /\ failure # "none" => ~EmptyStructure

\* the page limit of the scraping loop in progress or just ended
PageLimit ==
    IF pc \in {"tb_while", "tb_row", "tb_return"} \/
       returned.fn = "extract_table_data_task" THEN max_pages
    ELSE IF pc \in {"xt_while", "xt_row", "xt_return"} \/
            returned.fn = "extract_address_transactions_task"
       THEN max_pages_transactions
    ELSE IF pc \in {"xb_while", "xb_row", "xb_return"} \/
            returned.fn = "extract_balance_changes_task"
       THEN max_pages_balance
    ELSE 0

\* C28 (ScrapingSpec): each scraping loop goes through at most as many pages
\* as its page limit, clicks the next-page button at most that many times,
\* and the task ends.
C28_PageLimitAndTermination ==
    /\ [](page_count <= PageLimit /\ clicks <= PageLimit)
    /\ <>(pc = "done")

\* extract_balance_changes_task has returned after max_pages pages and as
\* many clicks, without having found every signature
C28_Witness ==
    /\ pc = "done"
    /\ returned.fn = "extract_balance_changes_task"
    /\ ~returned.raised
    /\ returned.pages_processed = max_pages_balance
    /\ clicks = max_pages_balance
    /\ returned.signatures_found < returned.signatures_total

\* C26 (TimeSpec): for a text "<n> <unit> ago" with one of the seven units,
\* singular or plural, parse_time_text evaluated at instant now returns now
\* minus n units.
C26_RelativeForms ==
    returned.fn = "parse_time_text" =>
       \A n \in 0..MaxCount : \A u \in Units : \A plural \in BOOLEAN :
          time_text = RelativeText(n, u.word, plural) =>
             /\ ~returned.result.raised
             /\ returned.result.value = now - n * u.seconds

\* the text matches a relative form: it has a number, the word of a unit
\* (abbreviated or not) and "ago"
MatchesRelativeForm ==
    /\ FirstNumber(time_text) >= 0
    /\ Contains(Lower(time_text), <<"a", "g", "o">>)
    /\ \E w \in {u.word : u \in Units} \cup Abbreviations :
          Contains(Lower(time_text), w)

\* C27 (TimeSpec): parse_time_text never raises and returns an instant; for
\* "just now" and for a text that neither matches a relative form nor is
\* parsed by an absolute format (a text with "ago" and no number included),
\* the instant is now.
C27_NeverRaisesDefaultsToNow ==
    returned.fn = "parse_time_text" =>
       /\ ~returned.result.raised
       /\ returned.result.value \in Int
       /\ ( \/ time_text = <<"j", "u", "s", "t", " ", "n", "o", "w">>
            \/ /\ ~MatchesRelativeForm
               /\ \A p \in Parsable : p.text # time_text )
          => returned.result.value = now

\* parse_time_text has returned now for a text with a unit and "ago" but no
\* number, on which the number lookup raises
C27_Witness ==
    /\ pc = "done"
    /\ returned.fn = "parse_time_text"
    /\ time_text = <<"m", "i", "n", "s", " ", "a", "g", "o">>
    /\ returned.result = [raised |-> FALSE, value |-> now]

\* C31 (TableSpec): a step of the row loop of extract_table_data_task adds
\* at most the "by" address of the row it has read, and only if one of the
\* row's program links is an Axiom program ID; a row that cannot be read
\* adds nothing and the loop goes on with the next row of the same page; no
\* other step of the task adds an address.
C31_OnlyAxiomRowsContribute ==
    [][ /\ (pc = "tb_row" /\ rows_left > 0) =>
             /\ unique_addresses \subseteq unique_addresses'
             /\ unique_addresses' \ unique_addresses \subseteq
                   (IF row'.kind = "row" /\ row'.links \cap Axiom # {}
                       THEN {row'.by} ELSE {})
             /\ row'.kind = "error" =>
                   /\ unique_addresses' = unique_addresses
                   /\ pc' = "tb_row"
                   /\ rows_left' = rows_left - 1
                   /\ page_count' = page_count
        /\ (pc \in {"tb_while", "tb_return"} \/ (pc = "tb_row" /\ rows_left = 0))
              => unique_addresses' = unique_addresses ]_vars

\* on the second page, after an address was taken, a row with Axiom links
\* that cannot be read has been skipped and a row of the page is left
C31_Witness ==
    /\ pc = "tb_row"
    /\ row.kind = "error"
    /\ row.links \cap Axiom # {}
    /\ rows_left = 1
    /\ page_count = 2
    /\ unique_addresses # {}

\* C32 (BalanceTaskSpec): in extract_balance_changes_task, and in the result
\* it returns, every signature that has records is a requested signature,
\* every record has a non-empty token name, and found_signatures /
\* signatures_found is the set / the number of the requested signatures with
\* at least one record.
C32_RecordsOfRequestedSignatures ==
    LET HasRecords(records) == {s \in DOMAIN records : records[s] # <<>>}
    IN  /\ HasRecords(balance_changes) \subseteq Range(signatures)
        /\ \A s \in DOMAIN balance_changes :
              \A i \in 1..Len(balance_changes[s]) :
                 balance_changes[s][i] # <<>>
        /\ found_signatures = HasRecords(balance_changes)
        /\ (returned.fn = "extract_balance_changes_task" /\ ~returned.raised) =>
              /\ HasRecords(returned.balance_changes) \subseteq
                    Range(signatures)
              /\ \A s \in DOMAIN returned.balance_changes :
                    \A i \in 1..Len(returned.balance_changes[s]) :
                       returned.balance_changes[s][i] # <<>>
              /\ returned.signatures_found =
                    Cardinality(HasRecords(returned.balance_changes))

\* the task has returned with two records under one requested signature and
\* none under the other
C32_Witness ==
    /\ pc = "done"
    /\ returned.fn = "extract_balance_changes_task"
    /\ ~returned.raised
    /\ Len(signatures) = 2
    /\ returned.signatures_found = 1
    /\ \E s \in Range(signatures) : Len(returned.balance_changes[s]) = 2

\* C33 (ActivitySpec): simulate_human_mouse_movement and
\* simulate_random_user_activity return without raising, and every
\* exception raised inside them has been logged.
C33_NeverRaisesAlwaysLogs ==
    /\ returned.fn \in {"simulate_human_mouse_movement",
                        "simulate_random_user_activity"} =>
          ~returned.raised
    /\ pc \in {"ua_while", "ua_act", "ua_delay", "done"} =>
          errors_logged = failures

\* C34 (NextPageSpec): when the pagination step ends without error, the
\* next-page control has been clicked exactly if some selector resolves to
\* an enabled control, also when an earlier selector resolves to a disabled
\* one.
C34_FirstEnabledControlClicked ==
    (returned.fn = "next_page" /\ ~returned.error) =>
       (returned.clicked <=>
           \E i \in 1..Len(next_button_selectors) : controls[i] = "enabled")

\* the positions of the records of changes with a token address
RecordsOf(token_address) ==
    {i \in 1..Len(changes) : changes[i].token_address = token_address}

\* C35 (BalanceSpec): changes never holds more than one record per mint nor
\* more than one native SOL record, however many pre and post entries of
\* the mint belong to the address, and so does the list that is returned.
C35_OneChangePerMint ==
    /\ \A mint \in Mints : Cardinality(RecordsOf(mint)) <= 1
    /\ Cardinality(RecordsOf(SOL)) <= 1
    /\ returned.fn = "_extract_balance_changes" => returned.changes = changes

\* _extract_balance_changes has returned a record for a mint met twice in
\* the pre list and once in the post list of the address, and a SOL record
C35_Witness ==
    /\ pc = "done"
    /\ returned.fn = "_extract_balance_changes"
    /\ \E mint \in Mints :
          /\ Cardinality({p \in pre_items : p[1] = mint}) = 2
          /\ \E p \in post_items : p[1] = mint
          /\ Cardinality(RecordsOf(mint)) = 1
    /\ Cardinality(RecordsOf(SOL)) = 1

\* C36: when no start() or stop() is in progress, the engine is stopped and
\* every worker thread that was spawned has exited, the task queue holds no
\* poison pill.
C36_NoLeftoverPill ==
    ( /\ lpc = "idle"
      /\ ~running
      /\ Spawned # {}
      /\ Alive = {} )
    => \A i \in 1..Len(task_queue) : task_queue[i] # None

\* C37 (FairSpec): every unit put on the task queue by add_task eventually
\* has its completion signal set.
C37_AcceptedUnitsComplete ==
    \A t \in Tasks : [](t <= nput => <>completed[t])

\* C38: a call of add_task or execute_task that starts on an engine that is
\* not running ends in RuntimeError and leaves the task queue as it is, and
\* no unit is put on the queue while the engine is not running.
C38_NothingEnqueuedWhenStopped ==
    [][ /\ \A c \in Submitters :
             (cpc[c] = "idle" /\ ~running /\
              (cpc'[c] # "idle" \/ lastRet'.who = c)) =>
                /\ lastRet' = Ret(c, "RuntimeError", None, None)
                /\ cpc'[c] = "idle"
                /\ task_queue' = task_queue
        /\ nput' # nput => running ]_vars

\* C39 (ConstructSpec): only one SeleniumManager object is ever created, no
\* construction raises, and the fields of the instance are initialised only
\* once, so that no construction resets them.
C39_SingleInstanceInitialisedOnce ==
    /\ created <= 1
    /\ \A k \in Constructors : kpc[k] # "raised"
    /\ inits <= 1

\* C40 (RetrySpec): current_rpc_url is always a member of rpc_urls and the
\* endpoint of client; where _switch_rpc_url is called (the backoff after the
\* first attempt) it moves current_rpc_url and client to a URL of the pool
\* other than the current one and returns True (the retry goes on) when
\* there is one, and otherwise returns False (the retry ends) and leaves
\* both as they are.
C40_SwitchWithinPool ==
    /\ [](current_rpc_url \in rpc_urls /\ client = current_rpc_url)
    /\ [][(rpc_pc = "backoff" /\ attempt = 1) =>
            IF rpc_urls \ {current_rpc_url} # {}
               THEN /\ current_rpc_url' \in rpc_urls \ {current_rpc_url}
                    /\ client' = current_rpc_url'
                    /\ switches' = switches + 1
                    /\ rpc_pc' = "call"
               ELSE /\ current_rpc_url' = current_rpc_url
                    /\ client' = client
                    /\ switches' = switches
                    /\ rpc_pc' = "done"]_vars

\* _switch_rpc_url has moved the client to the other URL of a pool of two
\* and the second attempt has been made there
C40_Witness ==
    /\ Cardinality(rpc_urls) = 2
    /\ switches = 1
    /\ Len(callLog) = 2
    /\ callLog[2].current = current_rpc_url
    /\ callLog[2].current # callLog[1].current
    /\ client = current_rpc_url

====
